---- MODULE Spec2Model ----
(***************************************************************************)
(* JRKBR: a Roomba steered by a colour detector.                           *)
(*                                                                         *)
(* The model covers the four controllers of the repository                 *)
(*   "seeker"    main.ColorSeeker   (src/unnamed/part_000, with cs.mu)     *)
(*   "libseeker" lib.ColorSeeker    (src/lib/color_detection.go)           *)
(*   "tracker"   lib.ColorTracker   (src/lib/color_tracker.go)             *)
(*   "follower"  lib.LineFollower   (src/unnamed/part_001)                 *)
(* their sampling loops, the Roomba transport they write to, and the HTTP  *)
(* handlers of the two server programs that create, start and stop them.   *)
(*                                                                         *)
(* Every goroutine is a process whose steps are the statements that touch  *)
(* shared state (a field of a controller, the global pointer, a mutex, the *)
(* serial port); unsynchronised accesses of the source interleave freely.  *)
(* Times are in milliseconds.                                              *)
(***************************************************************************)
EXTENDS Integers, Sequences, FiniteSets, TLC

(***************************************************************************)
(* Bounds of the model.                                                    *)
(***************************************************************************)
\* ticks one sampling loop may take
MaxTicks == 4
\* controller objects a server program may construct
MaxCtl == 2
\* HTTP requests a server program may receive
MaxReq == 2
\* ticks one sampling loop of a server program may take
MaxServerTicks == 1
\* Start() calls one ColorDetector may receive from its callers
MaxStarts == 2
\* camera reads the detection loops of one ColorDetector may make
MaxCycles == 2
\* calls the callers of one ColorDetector may make
MaxCalls == 4

(***************************************************************************)
(* Program constants.                                                      *)
(***************************************************************************)
SpinSpeed == 100
ForwardSpeed == 150
AdjustmentSpeed == 80
UpdateInterval == 50
LostColorTimeout == 2000
MinRotationSpeed == 35
TrackerForwardSpeed == 130
StopDelay == 300
FollowerForwardSpeed == 150
TurningSpeed == 100
StraightRadius == 32767
CmdDrive == 137
CmdSpot == 134
CmdClean == 135
CmdMax == 136
CmdDock == 143
CmdPower == 133
CmdStart == 128
CmdControl == 130
CmdSafe == 131
CmdFull == 132
DefaultSpeed == 200
MoveDefaultSpeed == 150
\* the zero time.Time{}, before every instant of the run
ZeroTime == -1
\* DefaultColorDetectionConfig
CenterWidth == 12
MinContourArea == 300

LineLeft == "LEFT"
LineRight == "RIGHT"
LineCentered == "CENTERED"
LineNotFound == "NOT FOUND"
LinePosition == {LineLeft, LineRight, LineCentered, LineNotFound}

Spinning == "SPINNING"
Centering == "CENTERING"
Following == "FOLLOWING"
Stopped == "STOPPED"
ColorSeekState == {Spinning, Centering, Following, Stopped}

Forward == "FORWARD"
Left == "LEFT"
Right == "RIGHT"
Stop == "STOP"

Seekers == {"seeker", "libseeker"}
Variants == {"seeker", "libseeker", "tracker", "follower"}

CtlIds == 1..MaxCtl
\* thread 0 is the caller of a single controller; 1..MaxReq are HTTP requests
Threads == 0..MaxReq
Requests == 1..MaxReq

\* mutant: the high byte taken without the conversion to 16 bits
HiByteSigned(x) == x \div 256

\* mutant: the opcode is written twice
sendCommandTwice(cmd) == <<cmd, cmd>>

(***************************************************************************)
(* Roomba.Drive: the five bytes of a drive frame.                          *)
(***************************************************************************)
\* the two's-complement 16-bit pattern of an int16
U16(x) == IF x < 0 THEN x + 65536 ELSE x
\* byte(x >> 8)
HiByte(x) == U16(x) \div 256
\* byte(x & 0xFF)
LoByte(x) == U16(x) % 256

Drive(velocity, radius) ==
    <<CmdDrive, HiByte(velocity), LoByte(velocity), HiByte(radius), LoByte(radius)>>

\* Roomba.Stop
RoombaStop == Drive(0, 0)
\* Roomba.sendCommand: one opcode byte
sendCommand(cmd) == <<cmd>>
\* a tick that calls no Roomba method
NoCmd == <<>>

(***************************************************************************)
(* The decision of one tick, per controller.                               *)
(***************************************************************************)
\* mutant: the loss timeout also applies to a spinning seeker
LostTooLongSpinning(cur, expired) == cur \in {Following, Centering, Spinning} /\ expired

\* mutant: a seeker that does not see the colour gives up at once
LostTooLongAtOnce(cur, expired) == cur \in {Following, Centering}

\* ColorSeeker.updateMovement, case LineNotFound: the loss timeout applies
LostTooLong(cur, expired) == cur \in {Following, Centering} /\ expired

\* mutant: the loss timeout stops the Roomba whatever the state is
SeekNotFoundCmdAnyState(cur, expired) ==
    IF cur = Spinning THEN Drive(SpinSpeed, -1)
    ELSE IF expired THEN RoombaStop ELSE NoCmd

\* mutant: within the grace window the forward drive is written again
SeekNotFoundCmdReissue(cur, expired) ==
    IF cur \in {Following, Centering}
    THEN (IF expired THEN RoombaStop
          ELSE IF cur = Following THEN Drive(ForwardSpeed, StraightRadius) ELSE NoCmd)
    ELSE IF cur = Spinning THEN Drive(SpinSpeed, -1) ELSE NoCmd

\* ColorSeeker.updateMovement: the Roomba call of the tick
SeekNotFoundCmd(cur, expired) ==
    IF cur \in {Following, Centering}
    THEN (IF expired THEN RoombaStop ELSE NoCmd)
    ELSE IF cur = Spinning THEN Drive(SpinSpeed, -1) ELSE NoCmd

\* mutant: the seeker turns away from the side the colour is on
SeekCmdMirrored(cur, position, expired) ==
    CASE position = LineNotFound -> SeekNotFoundCmd(cur, expired)
      [] position = LineCentered -> Drive(ForwardSpeed, StraightRadius)
      [] position = LineLeft -> Drive(AdjustmentSpeed, -1)
      [] position = LineRight -> Drive(AdjustmentSpeed, 1)

SeekCmd(cur, position, expired) ==
    CASE position = LineNotFound -> SeekNotFoundCmd(cur, expired)
      [] position = LineCentered -> Drive(ForwardSpeed, StraightRadius)
      [] position = LineLeft -> Drive(AdjustmentSpeed, 1)
      [] position = LineRight -> Drive(AdjustmentSpeed, -1)

\* ColorSeeker.updateMovement: the state after the tick
SeekNotFoundState(cur, expired) ==
    IF LostTooLong(cur, expired) THEN Stopped ELSE cur

\* mutant: a centred colour found while spinning goes through CENTERING
SeekCenteredStateViaCentering(cur) ==
    IF cur = Spinning THEN Centering
    ELSE IF cur = Centering THEN Following ELSE cur

\* mutant: a stopped seeker that sees the colour centred follows it again
SeekCenteredStateResume(cur) ==
    IF cur \in {Spinning, Centering, Stopped} THEN Following ELSE cur

SeekCenteredState(cur) ==
    IF cur \in {Spinning, Centering} THEN Following ELSE cur

\* mutant: an off-centre colour regresses FOLLOWING to CENTERING
SeekSideStateRegress(cur) ==
    IF cur \in {Spinning, Following} THEN Centering ELSE cur

SeekSideState(cur) ==
    IF cur = Spinning THEN Centering ELSE cur

SeekState(cur, position, expired) ==
    CASE position = LineNotFound -> SeekNotFoundState(cur, expired)
      [] position = LineCentered -> SeekCenteredState(cur)
      [] OTHER -> SeekSideState(cur)

\* mutant: the tracker turns at MinRotationSpeed whatever it saw before
RotationSpeedUndamped(lastPosition, side) == MinRotationSpeed

\* ColorTracker.handleColorPosition: the speed of a turn towards `side`
RotationSpeed(lastPosition, side) ==
    IF side = LineLeft /\ lastPosition = LineRight THEN MinRotationSpeed \div 2
    ELSE IF side = LineRight /\ lastPosition = LineLeft THEN MinRotationSpeed \div 2
    ELSE MinRotationSpeed

\* ColorTracker.handleColorPosition, case LineNotFound: stop the robot
TrackLost(seen, expired) == seen # ZeroTime /\ expired

TrackCmd(seen, lastPosition, position, expired) ==
    CASE position = LineNotFound ->
            IF TrackLost(seen, expired) THEN RoombaStop
            ELSE IF seen = ZeroTime THEN Drive(MinRotationSpeed, -1)
            ELSE NoCmd
      [] position = LineCentered -> Drive(TrackerForwardSpeed, StraightRadius)
      [] position = LineLeft -> Drive(RotationSpeed(lastPosition, LineLeft), 1)
      [] position = LineRight -> Drive(RotationSpeed(lastPosition, LineRight), -1)

\* mutant: the follower turns left at half the turning speed
FollowCmdSlowLeft(position) ==
    CASE position = LineCentered -> Drive(FollowerForwardSpeed, StraightRadius)
      [] position = LineLeft -> Drive(TurningSpeed \div 2, 1)
      [] position = LineRight -> Drive(TurningSpeed, -1)
      [] position = LineNotFound -> RoombaStop

\* LineFollower.updateMovement
FollowCmd(position) ==
    CASE position = LineCentered -> Drive(FollowerForwardSpeed, StraightRadius)
      [] position = LineLeft -> Drive(TurningSpeed, 1)
      [] position = LineRight -> Drive(TurningSpeed, -1)
      [] position = LineNotFound -> RoombaStop

\* mutant: a follower that loses the line keeps reporting FORWARD
FollowDirectionLostForward(position) ==
    CASE position = LineCentered -> Forward
      [] position = LineLeft -> Left
      [] position = LineRight -> Right
      [] position = LineNotFound -> Forward

FollowDirection(position) ==
    CASE position = LineCentered -> Forward
      [] position = LineLeft -> Left
      [] position = LineRight -> Right
      [] position = LineNotFound -> Stop

\* the controller's timeout: LostColorTimeout, StopDelay, none for the follower
Timeout(v) ==
    CASE v \in Seekers -> LostColorTimeout
      [] v = "tracker" -> StopDelay
      [] OTHER -> 0

\* the delays between two ticks the model draws from
Delays(v) == IF v = "follower" THEN {UpdateInterval} ELSE {UpdateInterval, Timeout(v)}


(***************************************************************************)
(* State.                                                                  *)
(***************************************************************************)
VARIABLES
    \* the controller objects: variant ("none" until constructed), running,
    \* stopChan, state, lastColorSeen, lastPosition, direction
    obj,
    \* each controller's controlLoop goroutine: pc and the locals of its tick
    loop,
    \* the callers: HTTP requests and the caller of a single controller
    th,
    \* seekerMutex / trackerMutex: 0, or the request that holds it
    mutex,
    \* activeSeeker / activeTracker: 0 (nil), or a controller
    active,
    \* the clock, read by time.Now and time.Since
    now,
    \* whether a write to the serial port succeeds
    portUp,
    \* the latest write to the serial port
    wire,
    \* per controller, the latest write made on its behalf
    last,
    \* per controller, the history of its loop and of Stop()
    hist

vars == <<obj, loop, th, mutex, active, now, portUp, wire, last, hist>>

\* a detection loop goroutine: pc, the frame it read and the colour bounds
\* it read for the frame
NoCdLoop == [pc |-> "none", img |-> <<>>, lower |-> "", upper |-> ""]

\* NewColorDetector: position NOT_FOUND, not running, the camera open, the
\* frame buffers empty.  The fields after `loops` are history: the calls
\* and the Start() calls received, whether Stop() or Close() was called,
\* whether a Start() call overlapped or followed one, the loops launched,
\* the closes of stopChan, the camera reads, the publications and the last
\* published position, whether Close() has returned, and whether a loop
\* read the camera or wrote the frame buffers after that, and the frame
\* the latest finished cycle worked on; retries counts the failed reads
\* since the latest publication.  lowerHSV and upperHSV are
\* cd.Config.LowerHSVBound and UpperHSVBound, named by the colour they
\* belong to; used is the pair the latest finished cycle passed to
\* InRangeWithScalar.  centerWidth is
\* cd.Config.CenterWidth; centerRect starts as the zero rectangle.
ZeroRect == [minX |-> 0, minY |-> 0, maxX |-> 0, maxY |-> 0]

NewDetector ==
    [running |-> FALSE, stopChan |-> "open", position |-> LineNotFound,
     centerWidth |-> CenterWidth, centerRect |-> ZeroRect, lastImg |-> <<>>,
     webcam |-> "open", frames |-> "empty", crashed |-> FALSE,
     loops |-> [i \in 1..MaxStarts |-> NoCdLoop],
     calls |-> 0, starts |-> 0, stopCalled |-> FALSE, closeCalled |-> FALSE,
     mixed |-> FALSE, launched |-> 0, closes |-> 0, cycles |-> 0,
     npub |-> 0, lastPub |-> "", closeReturned |-> FALSE, lateUse |-> FALSE,
     retries |-> 0, lowerHSV |-> "green", upperHSV |-> "green", used |-> <<>>]

NoObj ==
    [variant |-> "none", running |-> FALSE, stopChan |-> "open", state |-> "",
     lastColorSeen |-> ZeroTime, lastPosition |-> "", direction |-> "",
     cd |-> NewDetector]

\* NewColorSeeker, NewColorTracker, NewLineFollower
NewObj(v) ==
    [variant |-> v, running |-> FALSE, stopChan |-> "open",
     state |-> IF v \in Seekers THEN Stopped ELSE "",
     lastColorSeen |-> ZeroTime,
     lastPosition |-> IF v = "tracker" THEN LineNotFound ELSE "",
     direction |-> IF v = "follower" THEN Stop ELSE "",
     cd |-> NewDetector]

NoLoop ==
    [pc |-> "none", ticker |-> FALSE, position |-> "", currentState |-> "",
     expired |-> FALSE, cmd |-> NoCmd, newState |-> "", err |-> FALSE]

NoTick == [position |-> "", cmd |-> NoCmd, err |-> FALSE]

NoHist == [nticks |-> 0, prev |-> NoTick, zeros |-> 0, returned |-> FALSE]

NoWrite == [src |-> "none", bytes |-> <<>>, ok |-> TRUE]

NoThread ==
    [op |-> "none", cmd |-> "", speed |-> <<>>, pc |-> "idle", c |-> 0, ret |-> <<>>,
     got |-> <<>>]

\* the controllers whose sampling loop is running
Live == {c \in CtlIds : loop[c].pc \notin {"none", "exited"}}

\* time.Since(t) > d; the zero time is further back than any timeout
Expired(t, d) == t = ZeroTime \/ now - t > d

\* port.Write(bytes) on behalf of controller `by` (0: a manual command)
Written(by, src, bytes) ==
    /\ wire' = [by |-> by, src |-> src, bytes |-> bytes, ok |-> portUp, live |-> Live]
    /\ last' = IF by = 0 THEN last
               ELSE [last EXCEPT ![by] = [src |-> src, bytes |-> bytes, ok |-> portUp]]

(***************************************************************************)
(* ColorDetector: one detection cycle on a frame.  A frame is its size and *)
(* the contours FindContours returns on the mask, each with its area and   *)
(* its bounding rectangle.                                                 *)
(***************************************************************************)
\* image.Rectangle.Empty
RectEmpty(r) == r.minX >= r.maxX \/ r.minY >= r.maxY

\* image.Rectangle.Overlaps
Overlaps(r, s) ==
    /\ ~RectEmpty(r)
    /\ ~RectEmpty(s)
    /\ r.minX < s.maxX
    /\ s.minX < r.maxX
    /\ r.minY < s.maxY
    /\ s.minY < r.maxY

\* mutant: the zone reaches centerWidth to each side of the middle
CenterRectOfWide(width, height, divisor) ==
    LET centerWidth == width \div divisor
    IN [minX |-> (width \div 2) - centerWidth, minY |-> 0,
        maxX |-> (width \div 2) + centerWidth, maxY |-> height]

\* mutant: the zone begins left of the middle and is centerWidth wide
CenterRectOfFromLeft(width, height, divisor) ==
    LET centerWidth == width \div divisor
    IN [minX |-> (width \div 2) - (centerWidth \div 2), minY |-> 0,
        maxX |-> (width \div 2) - (centerWidth \div 2) + centerWidth, maxY |-> height]

\* detectionLoop: cd.centerRect of a frame, for the divisor cd.Config.CenterWidth
CenterRectOf(width, height, divisor) ==
    LET centerWidth == width \div divisor
    IN [minX |-> (width \div 2) - (centerWidth \div 2), minY |-> 0,
        maxX |-> (width \div 2) + (centerWidth \div 2), maxY |-> height]

\* cd.centerRect under the default configuration
CenterRect(width, height) == CenterRectOf(width, height, CenterWidth)

\* detectionLoop: the index of the largest contour (the first of the
\* largest), 0 when no contour has a positive area
RECURSIVE LargestFrom(_, _, _, _)
LargestFrom(contours, i, maxArea, largestIdx) ==
    IF i > Len(contours) THEN largestIdx
    ELSE IF contours[i].area > maxArea
         THEN LargestFrom(contours, i + 1, contours[i].area, i)
         ELSE LargestFrom(contours, i + 1, maxArea, largestIdx)

LargestIdx(contours) == LargestFrom(contours, 1, 0, 0)

\* mutant: the contour is centred when its horizontal centre is in the zone
PositionOfByCentre(rect, centerRect) ==
    LET centerX == rect.minX + ((rect.maxX - rect.minX) \div 2)
    IN IF centerX >= centerRect.minX /\ centerX < centerRect.maxX THEN LineCentered
       ELSE IF centerX < centerRect.minX THEN LineLeft
       ELSE LineRight

\* detectionLoop: the position of the largest contour against the centre
PositionOf(rect, centerRect) ==
    LET centerX == rect.minX + ((rect.maxX - rect.minX) \div 2)
    IN IF Overlaps(rect, centerRect) THEN LineCentered
       ELSE IF centerX < centerRect.minX THEN LineLeft
       ELSE LineRight

\* detectionLoop: maxArea after the loop over the contours
MaxAreaOf(contours) ==
    IF LargestIdx(contours) = 0 THEN 0 ELSE contours[LargestIdx(contours)].area

\* mutant: a contour of exactly MinContourArea counts as found
LargeEnoughInclusive(contours) ==
    MaxAreaOf(contours) >= MinContourArea /\ LargestIdx(contours) > 0

\* detectionLoop: maxArea > cd.Config.MinContourArea && largestIdx >= 0
LargeEnough(contours) ==
    MaxAreaOf(contours) > MinContourArea /\ LargestIdx(contours) > 0

\* detectionLoop: the position one cycle computes from a frame and
\* cd.centerRect
PositionAt(frame, centerRect) ==
    IF LargeEnough(frame.contours)
    THEN PositionOf(frame.contours[LargestIdx(frame.contours)], centerRect)
    ELSE LineNotFound

\* the position of a cycle whose cd.centerRect is the one of its frame, for
\* the divisor cd.Config.CenterWidth
PositionIn(frame, divisor) ==
    PositionAt(frame, CenterRectOf(frame.width, frame.height, divisor))

\* the position of a cycle under the default configuration
DetectPosition(frame) == PositionIn(frame, CenterWidth)

\* the contours the model feeds: left of, on and right of the centre zone,
\* and one on the centre that is not larger than MinContourArea
Contour(area, minX, maxX) ==
    [area |-> area, minX |-> minX, maxX |-> maxX, minY |-> 10, maxY |-> 30]

Frame(contours) == [width |-> 120, height |-> 90, contours |-> contours]

Frames ==
    { Frame(<<>>),
      Frame(<<Contour(MinContourArea + 100, 0, 20)>>),
      Frame(<<Contour(MinContourArea + 100, 50, 60)>>),
      Frame(<<Contour(MinContourArea + 100, 100, 120)>>),
      Frame(<<Contour(MinContourArea, 50, 60)>>),
      Frame(<<Contour(MinContourArea, 50, 60), Contour(MinContourArea + 1, 100, 120)>>) }

\* the frames one detection cycle is examined on: frames of many sizes
\* without a contour, and frames of 120 and 121 columns whose contours lie
\* left of, right of, on, next to and across the centre zone, alone or in
\* pairs, with areas around MinContourArea
FrameWidths == {1, 2, 3, 5, 24, 25, 120, 121}
FrameHeights == {1, 90}
Divisors == {1, 2, 3, 12, 200}
Big == MinContourArea + 100

SizedFrame(width, height, contours) ==
    [width |-> width, height |-> height, contours |-> contours]

ContourLists ==
    { <<Contour(Big, 0, 20)>>, <<Contour(Big, 100, 120)>>, <<Contour(Big, 50, 60)>>,
      <<Contour(Big, 0, 58)>>, <<Contour(Big, 40, 55)>>, <<Contour(Big, 65, 80)>>,
      <<Contour(Big, 62, 120)>>,
      <<Contour(0, 50, 60)>>, <<Contour(MinContourArea, 50, 60)>>,
      <<Contour(MinContourArea + 1, 50, 60)>>,
      <<Contour(Big + 50, 0, 20), Contour(Big, 50, 60)>>,
      <<Contour(Big, 50, 60), Contour(Big + 50, 100, 120)>>,
      <<Contour(Big, 0, 20), Contour(Big + 50, 50, 60), Contour(Big, 100, 120)>>,
      <<Contour(Big, 0, 20), Contour(Big, 50, 60)>>,
      <<Contour(MinContourArea, 50, 60), Contour(MinContourArea - 1, 0, 20)>> }

CycleFrames ==
    {SizedFrame(w, h, <<>>) : w \in FrameWidths, h \in FrameHeights}
        \cup {SizedFrame(w, 90, cs) : w \in {120, 121}, cs \in ContourLists}

\* the frames the camera of a detector delivers: any of Frames to a
\* detector used on its own, an empty or a centred one to the detector of a
\* controller, any of CycleFrames to a detector whose cycles are examined
FramesOf(v) ==
    IF v = "detector" THEN Frames
    ELSE IF v = "cycle" THEN CycleFrames
    ELSE {Frame(<<>>), Frame(<<Contour(MinContourArea + 100, 50, 60)>>)}

(***************************************************************************)
(* ColorDetector: Start(), Stop() and Close() as their effect on the       *)
(* detector d.                                                             *)
(***************************************************************************)
\* the detection loops of d that have not returned
CdLive(d) == {i \in 1..MaxStarts : d.loops[i].pc \notin {"none", "exited"}}

\* go cd.detectionLoop(): a new goroutine at the top of its loop
CdLaunch(d) ==
    LET i == d.launched + 1
    IN [d EXCEPT !.loops[i] = [NoCdLoop EXCEPT !.pc = "select"], !.launched = i]

\* close(cd.stopChan): the close of a closed channel panics
CdCloseChan(d) ==
    IF d.stopChan = "closed" THEN [d EXCEPT !.crashed = TRUE, !.closes = @ + 1]
    ELSE [d EXCEPT !.stopChan = "closed", !.closes = @ + 1]

\* mutant: GetPosition returns the position of a new detector
GetPositionInitial(d) == LineNotFound

\* cd.GetPosition()
GetPosition(d) == d.position

(***************************************************************************)
(* Start() and Stop() of a controller, called by thread t on th[t].c.      *)
(***************************************************************************)
\* th[t].ret is the stack of the places the calls in progress return to
Return(t) == [th EXCEPT ![t].pc = Head(th[t].ret), ![t].ret = Tail(th[t].ret)]
Goto(t, pc) == [th EXCEPT ![t].pc = pc]
\* a call of a method that begins at pc and returns to back
Enter(t, pc, back) == [th EXCEPT ![t].pc = pc, ![t].ret = <<back>> \o th[t].ret]
\* the early return of a call that finds nothing to do (noted in `got`)
ReturnAtOnce(t) ==
    [th EXCEPT ![t].pc = Head(th[t].ret), ![t].ret = Tail(th[t].ret),
               ![t].got = <<"early">>]

\* where Start goes on after colorDetector.Start()
StartNext(v) ==
    CASE v \in Seekers -> "Start.state"
      [] v = "tracker" -> "Start.drive"
      [] OTHER -> "Start.go"

\* mutant: Start does not look at running
StartFlagUnchecked(t) ==
    /\ th[t].pc = "Start"
    /\ LET c == th[t].c
           v == obj[c].variant
       IN IF v = "seeker"
          THEN /\ obj' = [obj EXCEPT ![c].running = TRUE]
               /\ th' = Enter(t, "cd.Start", StartNext(v))
          ELSE /\ th' = Goto(t, "Start.set")
               /\ UNCHANGED obj
    /\ UNCHANGED <<loop, mutex, active, now, portUp, wire, last, hist>>

\* Start: if running, return.  main.ColorSeeker tests and sets the flag
\* under cs.mu and then calls colorDetector.Start(); the other controllers
\* test here and set the flag in a statement of its own.
StartFlag(t) ==
    /\ th[t].pc = "Start"
    /\ LET c == th[t].c
           v == obj[c].variant
       IN IF obj[c].running
          THEN /\ th' = ReturnAtOnce(t)
               /\ UNCHANGED obj
          ELSE IF v = "seeker"
          THEN /\ obj' = [obj EXCEPT ![c].running = TRUE]
               /\ th' = Enter(t, "cd.Start", StartNext(v))
          ELSE /\ th' = Goto(t, "Start.set")
               /\ UNCHANGED obj
    /\ UNCHANGED <<loop, mutex, active, now, portUp, wire, last, hist>>

\* Start of lib.ColorSeeker, ColorTracker, LineFollower: running = true,
\* without a lock; then colorDetector.Start() is called
StartSet(t) ==
    /\ th[t].pc = "Start.set"
    /\ obj' = [obj EXCEPT ![th[t].c].running = TRUE]
    /\ th' = Enter(t, "cd.Start", StartNext(obj[th[t].c].variant))
    /\ UNCHANGED <<loop, mutex, active, now, portUp, wire, last, hist>>

\* ColorSeeker.Start: cs.state = Spinning
StartState(t) ==
    /\ th[t].pc = "Start.state"
    /\ obj' = [obj EXCEPT ![th[t].c].state = Spinning]
    /\ th' = Goto(t, "Start.drive")
    /\ UNCHANGED <<loop, mutex, active, now, portUp, wire, last, hist>>

\* the initial drive command of Start
InitialCmd(v) ==
    IF v \in Seekers THEN Drive(SpinSpeed, -1) ELSE Drive(MinRotationSpeed, -1)

\* mutant: Start launches the loop without an initial drive command
StartDriveSkipped(t) ==
    /\ th[t].pc = "Start.drive"
    /\ th' = Goto(t, "Start.go")
    /\ UNCHANGED <<obj, loop, mutex, active, now, portUp, wire, last, hist>>

StartDrive(t) ==
    /\ th[t].pc = "Start.drive"
    /\ Written(th[t].c, "start", InitialCmd(obj[th[t].c].variant))
    /\ th' = Goto(t, "Start.go")
    /\ UNCHANGED <<obj, loop, mutex, active, now, portUp, hist>>

\* go controlLoop(): the loop starts at its select, with a new ticker
StartGo(t) ==
    /\ th[t].pc = "Start.go"
    /\ loop' = [loop EXCEPT ![th[t].c].pc = "select", ![th[t].c].ticker = FALSE]
    /\ th' = Return(t)
    /\ UNCHANGED <<obj, mutex, active, now, portUp, wire, last, hist>>

\* Stop: if !running, return.  main.ColorSeeker tests and clears the flag
\* under cs.mu; the other controllers test here and clear the flag in a
\* statement of its own.
StopFlag(t) ==
    /\ th[t].pc = "Stop"
    /\ LET c == th[t].c
       IN IF ~obj[c].running
          THEN /\ th' = ReturnAtOnce(t)
               /\ UNCHANGED obj
          ELSE IF obj[c].variant = "seeker"
          THEN /\ obj' = [obj EXCEPT ![c].running = FALSE]
               /\ th' = Goto(t, "Stop.close")
          ELSE /\ th' = Goto(t, "Stop.set")
               /\ UNCHANGED obj
    /\ UNCHANGED <<loop, mutex, active, now, portUp, wire, last, hist>>

\* Stop of lib.ColorSeeker, ColorTracker, LineFollower: running = false,
\* without a lock
StopSet(t) ==
    /\ th[t].pc = "Stop.set"
    /\ obj' = [obj EXCEPT ![th[t].c].running = FALSE]
    /\ th' = Goto(t, "Stop.close")
    /\ UNCHANGED <<loop, mutex, active, now, portUp, wire, last, hist>>

\* Stop: close(stopChan), with no lock held (the close of a closed channel
\* panics); then colorDetector.Stop() is called
StopClose(t) ==
    /\ th[t].pc = "Stop.close"
    /\ LET c == th[t].c
       IN obj' = IF obj[c].stopChan = "closed"
                 THEN [obj EXCEPT ![c].cd.crashed = TRUE]
                 ELSE [obj EXCEPT ![c].stopChan = "closed"]
    /\ th' = Enter(t, "cd.Stop", "Stop.drive")
    /\ UNCHANGED <<loop, mutex, active, now, portUp, wire, last, hist>>

\* Stop: roomba.Stop(); the tracker and the follower return here
StopDrive(t) ==
    /\ th[t].pc = "Stop.drive"
    /\ LET c == th[t].c
       IN /\ Written(c, "stop", RoombaStop)
          /\ IF obj[c].variant \in Seekers
             THEN /\ th' = Goto(t, "Stop.state")
                  /\ UNCHANGED hist
             ELSE /\ th' = Return(t)
                  /\ hist' = [hist EXCEPT ![c].returned = TRUE]
    /\ UNCHANGED <<obj, loop, mutex, active, now, portUp>>

\* ColorSeeker.Stop: cs.state = Stopped
StopState(t) ==
    /\ th[t].pc = "Stop.state"
    /\ obj' = [obj EXCEPT ![th[t].c].state = Stopped]
    /\ hist' = [hist EXCEPT ![th[t].c].returned = TRUE]
    /\ th' = Return(t)
    /\ UNCHANGED <<loop, mutex, active, now, portUp, wire, last>>

(***************************************************************************)
(* controlLoop of controller c.                                            *)
(***************************************************************************)
\* select, case <-stopChan: return
LoopExit(c) ==
    /\ loop[c].pc = "select"
    /\ obj[c].stopChan = "closed"
    /\ loop' = [loop EXCEPT ![c].pc = "exited"]
    /\ UNCHANGED <<obj, th, mutex, active, now, portUp, wire, last, hist>>

\* the ticker fires, wherever the loop goroutine is (before its first
\* select, at a select, inside a tick): ticker.C buffers one tick
TickerFire(c) ==
    /\ loop[c].pc \notin {"none", "exited"}
    /\ ~loop[c].ticker
    /\ loop' = [loop EXCEPT ![c].ticker = TRUE]
    /\ UNCHANGED <<obj, th, mutex, active, now, portUp, wire, last, hist>>

\* select, case <-ticker.C: position := colorDetector.GetPosition().  With
\* stopChan open the loop waits for the tick; with stopChan closed the case
\* can be chosen only if a tick is buffered already.  The tick is taken a
\* delay d after the previous event; the Detector may have published any
\* position.
LoopTick(c, limit) ==
    /\ loop[c].pc = "select"
    /\ obj[c].stopChan = "open" \/ loop[c].ticker
    /\ hist[c].nticks < limit
    /\ \E d \in Delays(obj[c].variant), p \in LinePosition :
          /\ now' = now + d
          /\ loop' = [loop EXCEPT ![c].pc = "sampled", ![c].ticker = FALSE,
                                  ![c].position = p]
          /\ hist' = [hist EXCEPT
                ![c].nticks = @ + 1,
                ![c].prev = IF hist[c].nticks = 0 THEN NoTick
                            ELSE [position |-> loop[c].position,
                                  cmd |-> loop[c].cmd, err |-> loop[c].err],
                ![c].zeros = IF p = LineNotFound THEN @ ELSE 0]
    /\ UNCHANGED <<obj, th, mutex, active, portUp, wire, last>>

\* the Roomba call the tick decides on
TickCmd(o, position, expired) ==
    CASE o.variant \in Seekers -> SeekCmd(o.state, position, expired)
      [] o.variant = "tracker" ->
            TrackCmd(o.lastColorSeen, o.lastPosition, position, expired)
      [] OTHER -> FollowCmd(position)

\* updateMovement / handleColorPosition up to the Roomba call: the state is
\* read (main.ColorSeeker: under cs.mu into currentState), the timeout is
\* evaluated and lastColorSeen is set.  lib.ColorSeeker, where it sees the
\* colour and its test of cs.state succeeds, goes on to assign cs.state.
LoopDecide(c) ==
    /\ loop[c].pc = "sampled"
    /\ LET o == obj[c]
           v == o.variant
           p == loop[c].position
           expired == Expired(o.lastColorSeen, Timeout(v))
           cmd == TickCmd(o, p, expired)
           new == IF v \in Seekers THEN SeekState(o.state, p, expired) ELSE ""
       IN /\ obj' = [obj EXCEPT
                ![c].lastColorSeen =
                    IF v # "follower" /\ p # LineNotFound THEN now ELSE @]
          /\ loop' = [loop EXCEPT
                ![c].pc = IF v = "libseeker" /\ p # LineNotFound /\ new # o.state
                          THEN "assign"
                          ELSE IF cmd = NoCmd THEN "written" ELSE "decided",
                ![c].currentState = o.state,
                ![c].expired = expired,
                ![c].cmd = cmd,
                ![c].newState = new,
                ![c].err = FALSE]
    /\ UNCHANGED <<th, mutex, active, now, portUp, wire, last, hist>>

\* lib.ColorSeeker.updateMovement: cs.state = Following, cs.state =
\* Centering, after the test of cs.state and before the Roomba call, with
\* no lock
LoopAssign(c) ==
    /\ loop[c].pc = "assign"
    /\ obj' = [obj EXCEPT ![c].state = loop[c].newState]
    /\ loop' = [loop EXCEPT ![c].pc = "decided"]
    /\ UNCHANGED <<th, mutex, active, now, portUp, wire, last, hist>>

\* the Roomba call of the tick: one write to the port
LoopWrite(c) ==
    /\ loop[c].pc = "decided"
    /\ Written(c, "tick", loop[c].cmd)
    /\ loop' = [loop EXCEPT ![c].pc = "written", ![c].err = ~portUp]
    /\ hist' = [hist EXCEPT
          ![c].zeros = IF loop[c].cmd = RoombaStop THEN @ + 1 ELSE @]
    /\ UNCHANGED <<obj, th, mutex, active, now, portUp>>

\* the controller's fields after the tick's statements that follow the call
AfterTick(o, l) ==
    CASE o.variant = "seeker" ->
            [o EXCEPT !.state = IF l.newState # "" /\ l.newState # l.currentState
                                THEN l.newState ELSE @]
      [] o.variant = "libseeker" ->
            [o EXCEPT !.state = IF l.position = LineNotFound
                                   /\ LostTooLong(l.currentState, l.expired)
                                THEN Stopped ELSE @]
      [] o.variant = "tracker" ->
            IF l.position = LineNotFound
            THEN [o EXCEPT !.lastColorSeen =
                        IF TrackLost(o.lastColorSeen, l.expired) THEN ZeroTime ELSE @]
            ELSE [o EXCEPT !.lastPosition = l.position]
      [] OTHER -> [o EXCEPT !.direction = FollowDirection(l.position)]

LoopCommit(c) ==
    /\ loop[c].pc = "written"
    /\ obj' = [obj EXCEPT ![c] = AfterTick(obj[c], loop[c])]
    /\ loop' = [loop EXCEPT ![c].pc = "select"]
    /\ UNCHANGED <<th, mutex, active, now, portUp, wire, last, hist>>

\* the steps of the sampling loop every controller has (lib.ColorSeeker
\* has LoopAssign as well)
LoopStep(c, limit) ==
    \/ LoopExit(c)
    \/ TickerFire(c)
    \/ LoopTick(c, limit)
    \/ LoopDecide(c)
    \/ LoopWrite(c)
    \/ LoopCommit(c)

\* the serial connection drops; there is no reconnect
PortDrop ==
    /\ portUp
    /\ portUp' = FALSE
    /\ UNCHANGED <<obj, loop, th, mutex, active, now, wire, last, hist>>

(***************************************************************************)
(* ColorDetector: Start(), Stop(), Close() and GetPosition() called by     *)
(* thread t on the detector of th[t].c, and the detection loops.           *)
(***************************************************************************)
SetCd(c, d) == [obj EXCEPT ![c].cd = d]

\* mutant: the detector's Start does not look at running
CdStartFlagUnchecked(t) ==
    /\ th[t].pc = "cd.Start"
    /\ ~obj[th[t].c].cd.crashed
    /\ obj' = SetCd(th[t].c, [obj[th[t].c].cd EXCEPT !.running = TRUE])
    /\ th' = Goto(t, "cd.Start.go")
    /\ UNCHANGED <<loop, mutex, active, now, portUp, wire, last, hist>>

\* Start: cd.mu.Lock(); if cd.running return; cd.running = true; Unlock
CdStartFlag(t) ==
    /\ th[t].pc = "cd.Start"
    /\ LET c == th[t].c
           d == obj[c].cd
       IN /\ ~d.crashed
          /\ IF d.running
             THEN /\ th' = Return(t)
                  /\ UNCHANGED obj
             ELSE /\ obj' = SetCd(c, [d EXCEPT !.running = TRUE])
                  /\ th' = Goto(t, "cd.Start.go")
    /\ UNCHANGED <<loop, mutex, active, now, portUp, wire, last, hist>>

\* Start: go cd.detectionLoop()
CdStartGo(t) ==
    /\ th[t].pc = "cd.Start.go"
    /\ ~obj[th[t].c].cd.crashed
    /\ obj' = SetCd(th[t].c, CdLaunch(obj[th[t].c].cd))
    /\ th' = Return(t)
    /\ UNCHANGED <<loop, mutex, active, now, portUp, wire, last, hist>>

\* Stop: cd.mu.Lock(); if !cd.running return; cd.running = false; Unlock
CdStopFlag(t) ==
    /\ th[t].pc = "cd.Stop"
    /\ LET c == th[t].c
           d == obj[c].cd
       IN /\ ~d.crashed
          /\ IF ~d.running
             THEN /\ th' = Return(t)
                  /\ UNCHANGED obj
             ELSE /\ obj' = SetCd(c, [d EXCEPT !.running = FALSE])
                  /\ th' = Goto(t, "cd.Stop.close")
    /\ UNCHANGED <<loop, mutex, active, now, portUp, wire, last, hist>>

\* Stop: close(cd.stopChan)
CdStopClose(t) ==
    /\ th[t].pc = "cd.Stop.close"
    /\ ~obj[th[t].c].cd.crashed
    /\ obj' = SetCd(th[t].c, CdCloseChan(obj[th[t].c].cd))
    /\ th' = Return(t)
    /\ UNCHANGED <<loop, mutex, active, now, portUp, wire, last, hist>>

\* Close, after cd.Stop(): cd.webcam.Close() (there is no window by default)
CdCloseWebcam(t) ==
    /\ th[t].pc = "cd.Close.webcam"
    /\ ~obj[th[t].c].cd.crashed
    /\ obj' = SetCd(th[t].c, [obj[th[t].c].cd EXCEPT !.webcam = "closed"])
    /\ th' = Goto(t, "cd.Close.frames")
    /\ UNCHANGED <<loop, mutex, active, now, portUp, wire, last, hist>>

\* Close: under cd.mu, lastFrame and displayFrame are closed unless empty;
\* Close returns
CdCloseFrames(t) ==
    /\ th[t].pc = "cd.Close.frames"
    /\ LET d == obj[th[t].c].cd
       IN /\ ~d.crashed
          /\ obj' = SetCd(th[t].c,
                [d EXCEPT !.frames = IF @ = "held" THEN "released" ELSE @,
                          !.closeReturned = TRUE])
    /\ th' = Return(t)
    /\ UNCHANGED <<loop, mutex, active, now, portUp, wire, last, hist>>

CdCallStep(t) ==
    \/ CdStartFlag(t)
    \/ CdStartGo(t)
    \/ CdStopFlag(t)
    \/ CdStopClose(t)
    \/ CdCloseWebcam(t)
    \/ CdCloseFrames(t)

\* the steps of Start() and Stop() every controller has, those of the
\* detector's Start() and Stop() they call included
CallStep(t) ==
    \/ StartFlag(t)
    \/ CdStartFlag(t)
    \/ CdStartGo(t)
    \/ StartDrive(t)
    \/ StartGo(t)
    \/ StopFlag(t)
    \/ StopClose(t)
    \/ CdStopFlag(t)
    \/ CdStopClose(t)
    \/ StopDrive(t)

\* the steps only ColorSeeker has
SeekerCallStep(t) ==
    \/ StartState(t)
    \/ StopState(t)

\* the steps lib.ColorSeeker, ColorTracker and LineFollower have
UnlockedCallStep(t) ==
    \/ StartSet(t)
    \/ StopSet(t)

\* mutant: the detection loop does not look at stopChan
CdSelectBlind(c, i) ==
    LET d == obj[c].cd
    IN /\ ~d.crashed
       /\ d.loops[i].pc = "select"
       /\ d.cycles < MaxCycles
       /\ obj' = SetCd(c, [d EXCEPT !.loops[i].pc = "read"])
       /\ UNCHANGED <<loop, th, mutex, active, now, portUp, wire, last, hist>>

\* detectionLoop, select: case <-cd.stopChan: return; default: go on
CdSelect(c, i) ==
    LET d == obj[c].cd
    IN /\ ~d.crashed
       /\ d.loops[i].pc = "select"
       /\ d.stopChan = "closed" \/ d.cycles < MaxCycles
       /\ obj' = SetCd(c, [d EXCEPT !.loops[i].pc =
                              IF d.stopChan = "closed" THEN "exited" ELSE "read"])
       /\ UNCHANGED <<loop, th, mutex, active, now, portUp, wire, last, hist>>

\* mutant: a failed read ends the detection loop
CdReadFailExits(c, i) ==
    LET d == obj[c].cd
        e == [d EXCEPT !.cycles = @ + 1, !.lateUse = @ \/ d.closeReturned]
    IN /\ ~d.crashed
       /\ d.loops[i].pc = "read"
       /\ \/ obj' = SetCd(c, [e EXCEPT !.loops[i].pc = "exited", !.retries = @ + 1])
          \/ /\ d.webcam = "open"
             /\ \E f \in FramesOf(obj[c].variant) :
                   obj' = SetCd(c, [e EXCEPT !.loops[i].pc = "lower",
                                             !.loops[i].img = f,
                                             !.centerRect =
                                                 CenterRectOf(f.width, f.height,
                                                              d.centerWidth)])
          \/ /\ d.webcam = "closed"
             /\ obj' = SetCd(c, [e EXCEPT !.crashed = TRUE])
       /\ UNCHANGED <<loop, th, mutex, active, now, portUp, wire, last, hist>>

\* detectionLoop: cd.webcam.Read(&img).  A failed or empty read sleeps and
\* starts the next iteration.  After a read that gave a frame cd.centerRect
\* is set from its size, with no lock (only the detection loop uses
\* cd.centerRect).  A read of a camera that Close() has released
\* fails or crashes the process.
CdRead(c, i) ==
    LET d == obj[c].cd
        e == [d EXCEPT !.cycles = @ + 1, !.lateUse = @ \/ d.closeReturned]
    IN /\ ~d.crashed
       /\ d.loops[i].pc = "read"
       /\ \/ obj' = SetCd(c, [e EXCEPT !.loops[i].pc = "select", !.retries = @ + 1])
          \/ /\ d.webcam = "open"
             /\ \E f \in FramesOf(obj[c].variant) :
                   obj' = SetCd(c, [e EXCEPT !.loops[i].pc = "lower",
                                             !.loops[i].img = f,
                                             !.centerRect =
                                                 CenterRectOf(f.width, f.height,
                                                              d.centerWidth)])
          \/ /\ d.webcam = "closed"
             /\ obj' = SetCd(c, [e EXCEPT !.crashed = TRUE])
       /\ UNCHANGED <<loop, th, mutex, active, now, portUp, wire, last, hist>>

\* detectionLoop, gocv.InRangeWithScalar(hsvImg, cd.Config.LowerHSVBound,
\* cd.Config.UpperHSVBound, &mask): the lower bound is read, with no lock
CdReadLower(c, i) ==
    LET d == obj[c].cd
    IN /\ ~d.crashed
       /\ d.loops[i].pc = "lower"
       /\ obj' = SetCd(c, [d EXCEPT !.loops[i].lower = d.lowerHSV,
                                    !.loops[i].pc = "upper"])
       /\ UNCHANGED <<loop, th, mutex, active, now, portUp, wire, last, hist>>

\* ... and then the upper bound, with no lock
CdReadUpper(c, i) ==
    LET d == obj[c].cd
    IN /\ ~d.crashed
       /\ d.loops[i].pc = "upper"
       /\ obj' = SetCd(c, [d EXCEPT !.loops[i].upper = d.upperHSV,
                                    !.loops[i].pc = "process"])
       /\ UNCHANGED <<loop, th, mutex, active, now, portUp, wire, last, hist>>

\* detectionLoop: the frame is processed with cd.centerRect; under cd.mu the position is
\* stored, the old frame buffers are closed and the new ones stored.  On
\* frame buffers that Close() has released this is a use after release: it
\* goes through or crashes the process.
CdPublish(c, i) ==
    LET d == obj[c].cd
        img == d.loops[i].img
        position == PositionAt(img, d.centerRect)
    IN /\ ~d.crashed
       /\ d.loops[i].pc = "process"
       /\ \/ obj' = SetCd(c, [d EXCEPT !.position = position,
                                       !.lastImg = img,
                                       !.used = <<d.loops[i].lower, d.loops[i].upper>>,
                                       !.frames = "held",
                                       !.npub = @ + 1,
                                       !.retries = 0,
                                       !.lastPub = position,
                                       !.lateUse = @ \/ d.closeReturned,
                                       !.loops[i] = [NoCdLoop EXCEPT !.pc = "select"]])
          \/ /\ d.frames = "released"
             /\ obj' = SetCd(c, [d EXCEPT !.position = position,
                                          !.lateUse = @ \/ d.closeReturned,
                                          !.crashed = TRUE])
       /\ UNCHANGED <<loop, th, mutex, active, now, portUp, wire, last, hist>>

CdLoopStep(c, i) ==
    \/ CdSelect(c, i)
    \/ CdRead(c, i)
    \/ CdReadLower(c, i)
    \/ CdReadUpper(c, i)
    \/ CdPublish(c, i)

(***************************************************************************)
(* One controller and its caller: the controller is constructed, started,  *)
(* sampled, stopped and closed.                                            *)
(***************************************************************************)
InitCommon ==
    /\ loop = [c \in CtlIds |-> NoLoop]
    /\ th = [t \in Threads |-> NoThread]
    /\ mutex = 0
    /\ active = 0
    /\ now = 0
    /\ portUp = TRUE
    /\ wire = [by |-> 0, src |-> "none", bytes |-> <<>>, ok |-> TRUE, live |-> {}]
    /\ last = [c \in CtlIds |-> NoWrite]
    /\ hist = [c \in CtlIds |-> NoHist]

InitOne ==
    /\ InitCommon
    /\ \E v \in Variants : obj = [c \in CtlIds |-> IF c = 1 THEN NewObj(v) ELSE NoObj]

\* the caller calls Start() (on a controller that was not stopped or
\* closed before)
CallStart ==
    /\ th[0].pc = "idle"
    /\ ~obj[1].cd.crashed
    /\ obj[1].stopChan = "open"
    /\ ~obj[1].cd.closeCalled
    /\ th' = [th EXCEPT ![0] = [@ EXCEPT !.op = "call", !.pc = "Start", !.c = 1,
                                          !.ret = <<"idle">>, !.got = <<>>]]
    /\ UNCHANGED <<obj, loop, mutex, active, now, portUp, wire, last, hist>>

\* the caller calls Stop()
CallStop ==
    /\ th[0].pc = "idle"
    /\ ~obj[1].cd.crashed
    /\ th' = [th EXCEPT ![0] = [@ EXCEPT !.op = "call", !.pc = "Stop", !.c = 1,
                                          !.ret = <<"idle">>, !.got = <<>>]]
    /\ UNCHANGED <<obj, loop, mutex, active, now, portUp, wire, last, hist>>

\* the caller calls Close(), once: Close begins with Stop()
CallClose ==
    /\ th[0].pc = "idle"
    /\ ~obj[1].cd.crashed
    /\ ~obj[1].cd.closeCalled
    /\ th' = [th EXCEPT ![0] = [@ EXCEPT !.op = "call", !.pc = "Stop", !.c = 1,
                                          !.ret = <<"Close.cd", "idle">>, !.got = <<>>]]
    /\ obj' = SetCd(1, [obj[1].cd EXCEPT !.closeCalled = TRUE])
    /\ UNCHANGED <<loop, mutex, active, now, portUp, wire, last, hist>>

\* Close, after Stop(): colorDetector.Close(), which begins with cd.Stop()
CloseDetector(t) ==
    /\ th[t].pc = "Close.cd"
    /\ th' = Enter(t, "cd.Stop", "cd.Close.webcam")
    /\ UNCHANGED <<obj, loop, mutex, active, now, portUp, wire, last, hist>>

\* the steps of Close() after its Stop()
CloseStep(t) ==
    \/ CloseDetector(t)
    \/ CdCloseWebcam(t)
    \/ CdCloseFrames(t)

NextOne ==
    \/ CallStart
    \/ CallStop
    \/ CallClose
    \/ CloseStep(0)
    \/ CallStep(0)
    \/ SeekerCallStep(0)
    \/ UnlockedCallStep(0)
    \/ LoopStep(1, MaxTicks)
    \/ LoopAssign(1)
    \/ PortDrop

SpecOne == InitOne /\ [][NextOne]_vars

(***************************************************************************)
(* One controller, its detector and its caller under fair scheduling: a    *)
(* call that was made runs to its end, a tick that was begun is finished   *)
(* (the transport write returns), a detection loop keeps taking steps (the *)
(* camera read returns), and the select of the sampling loop, which        *)
(* chooses at random among the ready cases, does not pass over the closed  *)
(* stopChan forever.                                                       *)
(***************************************************************************)
NextStopping ==
    \/ CallStart
    \/ CallStop
    \/ CallStep(0)
    \/ SeekerCallStep(0)
    \/ UnlockedCallStep(0)
    \/ LoopStep(1, MaxServerTicks)
    \/ LoopAssign(1)
    \/ \E i \in 1..MaxStarts : CdLoopStep(1, i)

FairStopping ==
    /\ WF_vars(CallStep(0) \/ SeekerCallStep(0) \/ UnlockedCallStep(0))
    /\ WF_vars(LoopDecide(1) \/ LoopAssign(1) \/ LoopWrite(1) \/ LoopCommit(1))
    /\ SF_vars(LoopExit(1))
    /\ \A i \in 1..MaxStarts : WF_vars(CdLoopStep(1, i))

SpecStopping == InitOne /\ [][NextStopping]_vars /\ FairStopping

(***************************************************************************)
(* One ColorDetector and its callers: any caller may call Start(), Stop(), *)
(* Close() and GetPosition() at any time.  Close() is called once, and no  *)
(* Start() is called on a detector that is being or has been closed.       *)
(***************************************************************************)
NewDetObj == [NoObj EXCEPT !.variant = "detector"]

InitDetector ==
    /\ InitCommon
    /\ obj = [c \in CtlIds |-> IF c = 1 THEN NewDetObj ELSE NoObj]

\* the callers that are inside Start()
InStart == {t \in Requests : th[t].pc \in {"cd.Start", "cd.Start.go"}}

\* thread t calls a method of the detector: it goes on at pc and returns to ret
CdCall(t, pc, ret, d) ==
    /\ th[t].pc = "idle"
    /\ ~obj[1].cd.crashed
    /\ obj[1].cd.calls < MaxCalls
    /\ th' = [th EXCEPT ![t] = [@ EXCEPT !.op = "call", !.pc = pc, !.c = 1,
                        !.ret = IF ret = "idle" THEN <<"idle">> ELSE <<ret, "idle">>,
                        !.cmd = IF ret = "idle" THEN pc ELSE "cd.Close"]]
    /\ obj' = SetCd(1, [d EXCEPT !.calls = @ + 1])
    /\ UNCHANGED <<loop, mutex, active, now, portUp, wire, last, hist>>

CdCallStart(t) ==
    /\ obj[1].cd.starts < MaxStarts
    /\ ~obj[1].cd.closeCalled
    /\ CdCall(t, "cd.Start", "idle",
              [obj[1].cd EXCEPT !.starts = @ + 1, !.mixed = @ \/ obj[1].cd.stopCalled])

CdCallStop(t) ==
    CdCall(t, "cd.Stop", "idle",
           [obj[1].cd EXCEPT !.stopCalled = TRUE, !.mixed = @ \/ InStart # {}])

\* Close begins with cd.Stop()
CdCallClose(t) ==
    /\ ~obj[1].cd.closeCalled
    /\ CdCall(t, "cd.Stop", "cd.Close.webcam",
              [obj[1].cd EXCEPT !.stopCalled = TRUE, !.closeCalled = TRUE,
                                !.mixed = @ \/ InStart # {}])

\* GetPosition, under cd.mu: the caller gets the stored position; `want` is
\* the position of the latest publication at that moment
CdGetPosition(t) ==
    /\ th[t].pc = "idle"
    /\ ~obj[1].cd.crashed
    /\ obj[1].cd.calls < MaxCalls
    /\ LET d == obj[1].cd
       IN /\ th' = [th EXCEPT ![t] = [@ EXCEPT !.op = "call", !.c = 1,
                        !.cmd = "cd.GetPosition",
                        !.got = <<[value |-> GetPosition(d),
                                   want |-> IF d.npub = 0 THEN LineNotFound
                                            ELSE d.lastPub]>>]]
          /\ obj' = SetCd(1, [d EXCEPT !.calls = @ + 1])
    /\ UNCHANGED <<loop, mutex, active, now, portUp, wire, last, hist>>

NextDetector ==
    \/ \E t \in Requests :
          \/ CdCallStart(t)
          \/ CdCallStop(t)
          \/ CdCallClose(t)
          \/ CdGetPosition(t)
          \/ CdCallStep(t)
    \/ \E i \in 1..MaxStarts : CdLoopStep(1, i)

SpecDetector == InitDetector /\ [][NextDetector]_vars

(***************************************************************************)
(* The detection cycle on its own: a detector is constructed with any      *)
(* CenterWidth of Divisors, one caller starts and stops it, and every     *)
(* loop it launched runs: the first reads any of CycleFrames, one launched *)
(* after a Stop() finds stopChan closed at its select and returns.         *)
(***************************************************************************)
NewCycleObj(divisor) ==
    [NoObj EXCEPT !.variant = "cycle", !.cd.centerWidth = divisor]

InitCycle ==
    /\ InitCommon
    /\ \E divisor \in Divisors :
          obj = [c \in CtlIds |-> IF c = 1 THEN NewCycleObj(divisor) ELSE NoObj]

NextCycle ==
    \/ CdCallStart(1)
    \/ CdCallStop(1)
    \/ CdStartFlag(1)
    \/ CdStartGo(1)
    \/ CdStopFlag(1)
    \/ CdStopClose(1)
    \/ \E i \in 1..MaxStarts : CdLoopStep(1, i)

SpecCycle == InitCycle /\ [][NextCycle]_vars

(***************************************************************************)
(* SetColorRange on a ColorSeeker or ColorTracker: a second goroutine      *)
(* changes the colour bounds of the detector while the first starts, stops *)
(* and closes the controller and the detection loop runs.                  *)
(***************************************************************************)
Colours == {"red", "blue"}

\* a caller calls SetColorRange(lower, upper) with the bounds of a colour
SetColorRangeCall(t) ==
    /\ th[t].pc = "idle"
    /\ ~obj[1].cd.crashed
    /\ obj[1].variant \in Seekers \cup {"tracker"}
    /\ \E colour \in Colours :
          th' = [th EXCEPT ![t] = [@ EXCEPT !.op = "call", !.cmd = colour, !.c = 1,
                                           !.pc = "range.lower", !.ret = <<"idle">>]]
    /\ UNCHANGED <<obj, loop, mutex, active, now, portUp, wire, last, hist>>

\* colorDetector.Config.LowerHSVBound = lowerHSV
SetColorRangeLower(t) ==
    /\ th[t].pc = "range.lower"
    /\ obj' = SetCd(th[t].c, [obj[th[t].c].cd EXCEPT !.lowerHSV = th[t].cmd])
    /\ th' = Goto(t, "range.upper")
    /\ UNCHANGED <<loop, mutex, active, now, portUp, wire, last, hist>>

\* colorDetector.Config.UpperHSVBound = upperHSV
SetColorRangeUpper(t) ==
    /\ th[t].pc = "range.upper"
    /\ obj' = SetCd(th[t].c, [obj[th[t].c].cd EXCEPT !.upperHSV = th[t].cmd])
    /\ th' = Return(t)
    /\ UNCHANGED <<loop, mutex, active, now, portUp, wire, last, hist>>

InitRange ==
    /\ InitCommon
    /\ \E v \in Seekers \cup {"tracker"} :
          obj = [c \in CtlIds |-> IF c = 1 THEN NewObj(v) ELSE NoObj]

NextRange ==
    \/ CallStart
    \/ CallStop
    \/ CallClose
    \/ CloseStep(0)
    \/ CallStep(0)
    \/ SeekerCallStep(0)
    \/ UnlockedCallStep(0)
    \/ \E i \in 1..MaxStarts : CdLoopStep(1, i)
    \/ SetColorRangeCall(1)
    \/ SetColorRangeLower(1)
    \/ SetColorRangeUpper(1)

SpecRange == InitRange /\ [][NextRange]_vars

(***************************************************************************)
(* The Roomba driver on its own: a caller calls one method at a time with  *)
(* any arguments; the method makes its write and returns the error of the  *)
(* write, the one-opcode commands after a sleep.                           *)
(***************************************************************************)
\* the int16 arguments the model draws from
Int16Samples == {-32768, -500, -300, -256, -1, 0, 1, 255, 256, 300, 500, 32767}

\* Roomba.Start ... Roomba.PowerOff: the opcode each method sends
OpcodeOf(method) ==
    CASE method = "Start" -> CmdStart
      [] method = "Control" -> CmdControl
      [] method = "SafeMode" -> CmdSafe
      [] method = "FullMode" -> CmdFull
      [] method = "Clean" -> CmdClean
      [] method = "SpotClean" -> CmdSpot
      [] method = "MaxClean" -> CmdMax
      [] method = "Dock" -> CmdDock
      [] method = "PowerOff" -> CmdPower

OpcodeMethods ==
    {"Start", "Control", "SafeMode", "FullMode", "Clean", "SpotClean", "MaxClean",
     "Dock", "PowerOff"}

\* the bytes a method of the Roomba writes
RoombaBytes(method, args) ==
    CASE method = "Drive" -> Drive(args[1], args[2])
      [] method = "Stop" -> RoombaStop
      [] OTHER -> sendCommand(OpcodeOf(method))

\* the caller calls a method
RoombaCall ==
    /\ th[0].pc = "idle"
    /\ \/ \E velocity, radius \in Int16Samples :
             th' = [th EXCEPT ![0] = [NoThread EXCEPT !.op = "call", !.cmd = "Drive",
                                        !.speed = <<velocity, radius>>, !.pc = "roomba.write"]]
       \/ \E method \in OpcodeMethods \cup {"Stop"} :
             th' = [th EXCEPT ![0] = [NoThread EXCEPT !.op = "call", !.cmd = method,
                                        !.pc = "roomba.write"]]
    /\ UNCHANGED <<obj, loop, mutex, active, now, portUp, wire, last, hist>>

\* _, err := r.port.Write(...); `writes` counts the writes of the call.
\* Drive (and Stop, which is Drive(0, 0)) returns err at once; sendCommand
\* sleeps before it does.
RoombaWrite ==
    /\ th[0].pc = "roomba.write"
    /\ Written(0, "roomba", RoombaBytes(th[0].cmd, th[0].speed))
    /\ th' = [th EXCEPT ![0].pc = IF th[0].cmd \in OpcodeMethods THEN "roomba.sleep"
                                  ELSE "idle",
                        ![0].got = <<[err |-> ~portUp, writes |-> 1]>>]
    /\ UNCHANGED <<obj, loop, mutex, active, now, portUp, hist>>

\* sendCommand: time.Sleep(100 * time.Millisecond) is over; return err
\* (nothing here reads the clock, which stays as it is)
RoombaReturn ==
    /\ th[0].pc = "roomba.sleep"
    /\ th' = Goto(0, "idle")
    /\ UNCHANGED <<obj, loop, mutex, active, now, portUp, wire, last, hist>>

\* the serial connection comes back
PortRestore ==
    /\ ~portUp
    /\ portUp' = TRUE
    /\ UNCHANGED <<obj, loop, th, mutex, active, now, wire, last, hist>>

InitRoomba ==
    /\ InitCommon
    /\ obj = [c \in CtlIds |-> NoObj]

NextRoomba ==
    \/ RoombaCall
    \/ RoombaWrite
    \/ RoombaReturn
    \/ PortDrop
    \/ PortRestore

SpecRoomba == InitRoomba /\ [][NextRoomba]_vars

(***************************************************************************)
(* The HTTP handlers of the two server programs.  Each request is a        *)
(* goroutine of its own.                                                   *)
(***************************************************************************)
ControlCommands ==
    {"forward", "backward", "left", "right", "stop", "clean", "spot", "max", "dock", "power"}
MoveCommands == {"forward", "backward", "left", "right", "stop"}
\* the speed field of a request: <<>> when it does not parse, else <<n>>
SpeedInputs == {<<>>, <<200>>, <<501>>}

\* -x of an int16
Neg16(x) == IF x = -32768 THEN -32768 ELSE -x

\* /control: strconv.ParseInt(speedStr, 10, 16), 200 when it fails
ControlSpeed(input) ==
    IF input = <<>> THEN DefaultSpeed
    ELSE IF input[1] < -32768 \/ input[1] > 32767 THEN DefaultSpeed
    ELSE input[1]

\* /move: strconv.Atoi clamped to [50, 300], 150 when there is none
MoveSpeed(input) ==
    IF input = <<>> THEN MoveDefaultSpeed
    ELSE IF input[1] < 50 THEN 50
    ELSE IF input[1] > 300 THEN 300
    ELSE input[1]

\* the frame of a manual command
ManualFrame(command, speed) ==
    CASE command = "forward" -> Drive(speed, StraightRadius)
      [] command = "backward" -> Drive(Neg16(speed), StraightRadius)
      [] command = "left" -> Drive(speed, 1)
      [] command = "right" -> Drive(speed, -1)
      [] command = "stop" -> RoombaStop
      [] command = "clean" -> sendCommand(CmdClean)
      [] command = "spot" -> sendCommand(CmdSpot)
      [] command = "max" -> sendCommand(CmdMax)
      [] command = "dock" -> sendCommand(CmdDock)
      [] command = "power" -> sendCommand(CmdPower)

\* a request arrives and its handler starts
Arrive(t, op, command, speed, pc) ==
    /\ th[t].op = "none"
    /\ th' = [th EXCEPT ![t] = [op |-> op, cmd |-> command, speed |-> speed,
                                 pc |-> pc, c |-> 0, ret |-> <<>>, got |-> <<>>]]
    /\ UNCHANGED <<obj, loop, mutex, active, now, portUp, wire, last, hist>>

\* mutex.Lock(); if active != nil { active.Stop() ... : with a controller
\* active the handler calls its Stop() and goes on at `onActive`; with none
\* it goes on at `onNil`, holding the mutex if `hold`
LockActive(t, from, onActive, onNil, hold) ==
    /\ th[t].pc = from
    /\ mutex = 0
    /\ IF active # 0
       THEN /\ mutex' = t
            /\ th' = [th EXCEPT ![t].pc = "Stop", ![t].c = active, ![t].ret = <<onActive>>]
       ELSE /\ mutex' = IF hold THEN t ELSE 0
            /\ th' = Goto(t, onNil)
    /\ UNCHANGED <<obj, loop, active, now, portUp, wire, last, hist>>

\* ... active = nil }; mutex.Unlock()
ClearActive(t, from, to) ==
    /\ th[t].pc = from
    /\ active' = 0
    /\ mutex' = 0
    /\ th' = Goto(t, to)
    /\ UNCHANGED <<obj, loop, now, portUp, wire, last, hist>>

\* a manual command is written to the Roomba
ManualWrite(t, from, frame, to) ==
    /\ th[t].pc = from
    /\ Written(0, "manual", frame)
    /\ th' = Goto(t, to)
    /\ UNCHANGED <<obj, loop, mutex, active, now, portUp, hist>>

\* /seekColor: lock, stop the active controller
SeekLock(t) == LockActive(t, "seek.lock", "seek.new", "seek.new", TRUE)

\* /seekColor: active = nil; the constructor fails (the camera cannot be
\* opened): unlock and answer with the error
SeekNewFails(t) ==
    /\ th[t].pc = "seek.new"
    /\ active' = 0
    /\ mutex' = 0
    /\ th' = Goto(t, "done")
    /\ UNCHANGED <<obj, loop, now, portUp, wire, last, hist>>

\* /seekColor: active = nil; a controller of variant v is constructed and
\* stored as the active one; unlock; then its Start() is called
SeekNew(t, v) ==
    /\ th[t].pc = "seek.new"
    /\ \E c \in CtlIds :
          /\ obj[c].variant = "none"
          /\ \A b \in CtlIds : b < c => obj[b].variant # "none"
          /\ obj' = [obj EXCEPT ![c] = NewObj(v)]
          /\ active' = c
          /\ th' = [th EXCEPT ![t].pc = "Start", ![t].c = c, ![t].ret = <<"done">>]
    /\ mutex' = 0
    /\ UNCHANGED <<loop, now, portUp, wire, last, hist>>

\* /control of the main program: the command is written first; "stop" then
\* stops the active seeker
ControlWrite(t) ==
    ManualWrite(t, "control.write", ManualFrame(th[t].cmd, ControlSpeed(th[t].speed)),
                IF th[t].cmd = "stop" THEN "control.lock" ELSE "done")

ControlLock(t) == LockActive(t, "control.lock", "control.clear", "done", FALSE)

ControlClear(t) == ClearActive(t, "control.clear", "done")

\* /stop of the tracker program: the active tracker is stopped, then
\* roomba.Stop()
StopLock(t) == LockActive(t, "stop.lock", "stop.clear", "stop.write", FALSE)

StopClear(t) == ClearActive(t, "stop.clear", "stop.write")

StopWrite(t) == ManualWrite(t, "stop.write", RoombaStop, "done")

\* /move of the tracker program: the active tracker is stopped, then the
\* command is written
MoveLock(t) == LockActive(t, "move.lock", "move.clear", "move.write", FALSE)

MoveClear(t) == ClearActive(t, "move.clear", "move.write")

MoveWrite(t) ==
    ManualWrite(t, "move.write", ManualFrame(th[t].cmd, MoveSpeed(th[t].speed)), "done")

InitServer ==
    /\ InitCommon
    /\ obj = [c \in CtlIds |-> NoObj]

\* the main program (src/unnamed/part_000)
ArriveMain(t) ==
    \/ Arrive(t, "seekColor", "", <<>>, "seek.lock")
    \/ \E command \in ControlCommands, speed \in SpeedInputs :
          Arrive(t, "control", command, speed, "control.write")

NextMain ==
    \/ \E t \in Requests :
          \/ ArriveMain(t)
          \/ SeekLock(t)
          \/ SeekNewFails(t)
          \/ SeekNew(t, "seeker")
          \/ ControlWrite(t)
          \/ ControlLock(t)
          \/ ControlClear(t)
          \/ CallStep(t)
          \/ SeekerCallStep(t)
    \/ \E c \in CtlIds : LoopStep(c, MaxServerTicks)
    \/ PortDrop

SpecMain == InitServer /\ [][NextMain]_vars

\* the tracker program (src/color_tester.go)
ArriveTracker(t) ==
    \/ Arrive(t, "seekColor", "", <<>>, "seek.lock")
    \/ Arrive(t, "stop", "", <<>>, "stop.lock")
    \/ \E command \in MoveCommands, speed \in SpeedInputs :
          Arrive(t, "move", command, speed, "move.lock")

NextTracker ==
    \/ \E t \in Requests :
          \/ ArriveTracker(t)
          \/ SeekLock(t)
          \/ SeekNewFails(t)
          \/ SeekNew(t, "tracker")
          \/ StopLock(t)
          \/ StopClear(t)
          \/ StopWrite(t)
          \/ MoveLock(t)
          \/ MoveClear(t)
          \/ MoveWrite(t)
          \/ CallStep(t)
          \/ UnlockedCallStep(t)
    \/ \E c \in CtlIds : LoopStep(c, MaxServerTicks)
    \/ PortDrop

SpecTracker == InitServer /\ [][NextTracker]_vars

(***************************************************************************)
(* Properties.                                                             *)
(***************************************************************************)
SeekerIds == {c \in CtlIds : obj[c].variant \in Seekers}

\* the latest tick of c has made its Roomba call, if it makes one
TickWritten(c) == loop[c].pc = "written"

\* the latest tick of c is complete
TickDone(c) == hist[c].nticks > 0 /\ loop[c].pc \in {"select", "exited"}

\* Stop() has not been called on c so far
NotStopped(c) == obj[c].stopChan = "open"

\* C1: at most one controller has its sampling loop running at any time.
C1_OneLoopRunning == Cardinality(Live) <= 1

\* C2: once a newer controller has written its first frame, no frame of an
\* older controller's sampling loop is written to the Roomba.
C2_OldLoopExitedFirst ==
    wire.src = "tick" =>
        \A c \in CtlIds : c > wire.by => last[c].src = "none"

\* C3: after Stop() has returned on a controller, the last frame written on
\* its behalf is the Drive(0,0) of Stop(): its loop writes nothing later.
C3_StopIsLastFrame ==
    \A c \in CtlIds :
        hist[c].returned => last[c].src = "stop" /\ last[c].bytes = RoombaStop

\* C4: no manual command is written to the Roomba while the sampling loop of
\* a controller is running.
C4_ManualOnlyWhenStopped == wire.src = "manual" => wire.live = {}

\* the time since lastColorSeen, for a controller that has seen the colour
SinceSeen(c) == now - obj[c].lastColorSeen

\* C5: a ColorSeeker tick that finds the colour lost for longer than
\* LostColorTimeout in FOLLOWING or CENTERING calls Drive(0,0) and leaves the
\* state STOPPED, and over a run of consecutive NOT_FOUND ticks Drive(0,0)
\* is written by the loop exactly once.
C5_LossTimeoutStopsOnce ==
    \A c \in SeekerIds :
        /\ hist[c].zeros <= 1
        /\ (/\ loop[c].pc \in {"decided", "written"} \/ TickDone(c)
            /\ loop[c].position = LineNotFound
            /\ loop[c].currentState \in {Following, Centering}
            /\ loop[c].expired)
           => /\ loop[c].cmd = RoombaStop
              /\ loop[c].pc # "decided" => hist[c].zeros = 1
              /\ TickDone(c) => obj[c].state = Stopped

\* the loss timeout stopped the seeker and a further NOT_FOUND tick followed
C5_Witness ==
    \E c \in SeekerIds :
        /\ TickDone(c)
        /\ NotStopped(c)
        /\ hist[c].prev = [position |-> LineNotFound, cmd |-> RoombaStop, err |-> FALSE]
        /\ loop[c].position = LineNotFound
        /\ loop[c].cmd = NoCmd
        /\ obj[c].state = Stopped
        /\ hist[c].zeros = 1

\* a NOT_FOUND tick of a seeker in FOLLOWING, less than LostColorTimeout
\* after the colour was last seen, has made its decision
C6_Case(c) ==
    /\ TickWritten(c)
    /\ loop[c].position = LineNotFound
    /\ loop[c].currentState = Following
    /\ obj[c].lastColorSeen # ZeroTime
    /\ SinceSeen(c) < LostColorTimeout

\* C6, as claimed: such a tick re-issues Drive(ForwardSpeed, STRAIGHT).
C6_ReissuesForward ==
    \A c \in SeekerIds :
        C6_Case(c) => loop[c].cmd = Drive(ForwardSpeed, StraightRadius)

\* a NOT_FOUND tick of a seeker in FOLLOWING, not more than LostColorTimeout
\* after the colour was last seen, has made its decision
C6_CaseUpTo(c) ==
    /\ TickWritten(c)
    /\ loop[c].position = LineNotFound
    /\ loop[c].currentState = Following
    /\ obj[c].lastColorSeen # ZeroTime
    /\ SinceSeen(c) <= LostColorTimeout

\* C6, amended: a NOT_FOUND tick in FOLLOWING, not more than
\* LostColorTimeout after the colour was last seen, writes no frame to the
\* Roomba and leaves the controller as it is (state FOLLOWING, lastColorSeen).
C6_HoldsWithoutCommand ==
    \A c \in SeekerIds :
        C6_CaseUpTo(c) =>
            /\ loop[c].cmd = NoCmd
            /\ loop[c].newState = Following
            /\ AfterTick(obj[c], loop[c]) = obj[c]

C6_Witness ==
    \E c \in SeekerIds :
        /\ C6_Case(c)
        /\ NotStopped(c)
        /\ obj[c].state = Following
        /\ last[c].src = "tick"
        /\ last[c].bytes = Drive(ForwardSpeed, StraightRadius)

\* C7: a ColorSeeker tick that samples CENTERED in SPINNING or CENTERING
\* calls Drive(ForwardSpeed, STRAIGHT) and sets the state to FOLLOWING (only
\* a Stop() called meanwhile makes it STOPPED); coming from SPINNING the
\* state is never CENTERING on the way.
C7_CenteredFollows ==
    \A c \in SeekerIds :
        (/\ loop[c].pc \in {"decided", "written"} \/ TickDone(c)
         /\ loop[c].position = LineCentered
         /\ loop[c].currentState \in {Spinning, Centering})
        => /\ loop[c].cmd = Drive(ForwardSpeed, StraightRadius)
           /\ loop[c].currentState = Spinning => obj[c].state # Centering
           /\ TickDone(c) => obj[c].state \in {Following, Stopped}
           /\ TickDone(c) /\ NotStopped(c) =>
                 /\ obj[c].state = Following
                 /\ last[c] = [src |-> "tick", bytes |-> Drive(ForwardSpeed, StraightRadius),
                               ok |-> ~loop[c].err]

C7_Witness ==
    \E c \in SeekerIds :
        /\ TickDone(c)
        /\ NotStopped(c)
        /\ loop[c].position = LineCentered
        /\ loop[c].currentState = Spinning
        /\ obj[c].state = Following

\* a LEFT or RIGHT tick of a seeker in FOLLOWING is complete and no Stop()
\* was called
C8_Case(c) ==
    /\ TickDone(c)
    /\ NotStopped(c)
    /\ loop[c].position \in {LineLeft, LineRight}
    /\ loop[c].currentState = Following

\* C8, as claimed: such a tick regresses the state to CENTERING.
C8_RegressesToCentering ==
    \A c \in SeekerIds : C8_Case(c) => obj[c].state = Centering

\* C8, amended: such a tick leaves the state FOLLOWING and writes the slow
\* turn Drive(AdjustmentSpeed, +1) for LEFT, Drive(AdjustmentSpeed, -1) for
\* RIGHT.
C8_SideKeepsFollowing ==
    \A c \in SeekerIds :
        C8_Case(c) =>
            /\ obj[c].state = Following
            /\ last[c].src = "tick"
            /\ last[c].bytes =
                  Drive(AdjustmentSpeed, IF loop[c].position = LineLeft THEN 1 ELSE -1)

C8_Witness ==
    \E c \in SeekerIds : C8_Case(c) /\ loop[c].position = LineRight

\* C9: a ColorSeeker tick that finds the state STOPPED leaves it STOPPED,
\* whatever position it samples.
C9_StoppedIsTerminal ==
    \A c \in SeekerIds :
        (/\ loop[c].pc \in {"decided", "written"} \/ TickDone(c)
         /\ loop[c].currentState = Stopped)
        => /\ obj[c].state = Stopped
           /\ loop[c].newState = Stopped

\* the seeker gave up at the loss timeout (no Stop() was called) and a later
\* tick saw the colour CENTERED again
C9_Witness ==
    \E c \in SeekerIds :
        /\ TickDone(c)
        /\ NotStopped(c)
        /\ loop[c].currentState = Stopped
        /\ loop[c].position = LineCentered
        /\ obj[c].state = Stopped

\* C10: when the Roomba call of a tick fails, the next tick that samples the
\* same position makes the same call again (no Stop() being called).
C10_FailedWriteRetried ==
    \A c \in CtlIds :
        (/\ TickDone(c)
         /\ NotStopped(c)
         /\ hist[c].prev.err
         /\ hist[c].prev.position = loop[c].position)
        => loop[c].cmd = hist[c].prev.cmd

\* the controller's loop was launched by Start() and has taken no tick,
\* and Stop() was not called
JustLaunched(c) ==
    /\ loop[c].pc # "none"
    /\ hist[c].nticks = 0
    /\ NotStopped(c)

\* C11 (as claimed): Start() of every variant starts the Detector, then
\* writes an initial drive command, then launches the sampling loop.
C11_InitialCommandEveryVariant ==
    \A c \in CtlIds :
        /\ last[c].src = "start" => obj[c].cd.launched = 1
        /\ JustLaunched(c) => last[c].src = "start"

\* C11: Start() of a ColorSeeker or ColorTracker starts the Detector, then
\* writes its initial drive command, then launches the sampling loop;
\* Start() of a LineFollower starts the Detector and launches the loop
\* without writing a frame.
C11_InitialCommandBeforeLoop ==
    \A c \in CtlIds :
        /\ last[c].src = "start" => obj[c].cd.launched = 1
        /\ JustLaunched(c) =>
              /\ obj[c].cd.launched = 1
              /\ IF obj[c].variant = "follower"
                 THEN last[c] = NoWrite
                 ELSE last[c] = [src |-> "start", ok |-> last[c].ok,
                                 bytes |-> InitialCmd(obj[c].variant)]

C11_Witness ==
    \E c \in CtlIds :
        /\ obj[c].variant = "tracker"
        /\ JustLaunched(c)
        /\ last[c].bytes = Drive(MinRotationSpeed, -1)

\* C12: a Start() on a running controller and a Stop() on a controller that
\* is not running return at once: no field of the controller changes, no
\* loop is launched, no channel is closed and no frame is written.
C12_StartStopIdempotent ==
    [][\A t \in Threads :
          (/\ th[t].pc \in {"Start", "Stop"}
           /\ obj[th[t].c].running = (th[t].pc = "Start")
           /\ th'[t] # th[t])
          => /\ th'[t].pc = Head(th[t].ret)
             /\ UNCHANGED <<obj, loop, wire, last, hist>>]_vars

C12_Witness ==
    /\ th[0].pc = "idle"
    /\ th[0].got = <<"early">>
    /\ obj[1].running
    /\ loop[1].pc = "select"
    /\ hist[1].nticks > 0

\* C13: once Stop() has closed the stop channel of a controller, its
\* sampling loop exits; once it has closed the stop channel of the
\* detector, every detection loop exits, whether the camera reads succeed
\* or fail; and a Stop() that was called returns.
C13_StopCompletes ==
    /\ (obj[1].stopChan = "closed") ~> (loop[1].pc = "exited")
    /\ (obj[1].cd.stopChan = "closed") ~> (CdLive(obj[1].cd) = {})
    /\ (th[0].pc = "Stop") ~> (th[0].pc = "idle")

\* Stop() has returned while the sampling loop and the detection loop,
\* whose reads have all failed, are still running
C13_Witness ==
    /\ hist[1].returned
    /\ loop[1].pc \notin {"none", "exited"}
    /\ CdLive(obj[1].cd) # {}
    /\ obj[1].cd.cycles > 0
    /\ obj[1].cd.npub = 0

\* a call of `method` on the Roomba has returned
Returned(method) ==
    /\ th[0].pc = "idle"
    /\ th[0].cmd = method
    /\ th[0].got # <<>>

\* the signed 16-bit value of a big-endian byte pair
Int16Of(hi, lo) == IF hi >= 128 THEN hi * 256 + lo - 65536 ELSE hi * 256 + lo

\* C14: Drive(velocity, radius) makes one write of five bytes: 137, then
\* velocity and radius as two's-complement big-endian pairs; Drive(300,
\* 32767) writes 137, 1, 44, 127, 255 and Stop() writes 137, 0, 0, 0, 0.
C14_DriveEncoding ==
    /\ Returned("Drive") =>
          LET b == wire.bytes
          IN /\ th[0].got[1].writes = 1
             /\ Len(b) = 5
             /\ b[1] = 137
             /\ \A k \in 2..5 : b[k] \in 0..255
             /\ Int16Of(b[2], b[3]) = th[0].speed[1]
             /\ Int16Of(b[4], b[5]) = th[0].speed[2]
             /\ th[0].speed = <<300, 32767>> => b = <<137, 1, 44, 127, 255>>
    /\ Returned("Stop") => wire.bytes = <<137, 0, 0, 0, 0>>

C14_Witness ==
    /\ Returned("Drive")
    /\ th[0].speed = <<-300, 32767>>
    /\ wire.bytes = <<137, 254, 212, 127, 255>>

\* C15: each single-opcode command makes one write of one byte, its opcode,
\* and returns the error of that write.
C15_SingleOpcode ==
    \A method \in OpcodeMethods :
        Returned(method) =>
            /\ th[0].got[1].writes = 1
            /\ th[0].got[1].err = ~wire.ok
            /\ wire.bytes =
                  <<CASE method = "Start" -> 128
                      [] method = "Control" -> 130
                      [] method = "SafeMode" -> 131
                      [] method = "FullMode" -> 132
                      [] method = "PowerOff" -> 133
                      [] method = "SpotClean" -> 134
                      [] method = "Clean" -> 135
                      [] method = "MaxClean" -> 136
                      [] method = "Dock" -> 143>>

C15_Witness ==
    /\ Returned("Dock")
    /\ wire.bytes = <<143>>
    /\ th[0].got[1].err

\* a LineFollower has completed two ticks in a row that sampled LEFT or
\* RIGHT, with no Stop() called
C16_Case(c) ==
    /\ obj[c].variant = "follower"
    /\ TickDone(c)
    /\ NotStopped(c)
    /\ hist[c].nticks >= 2
    /\ hist[c].prev.position \in {LineLeft, LineRight}
    /\ loop[c].position \in {LineLeft, LineRight}

\* the in-place rotation towards a position
TurnRadius(position) == IF position = LineLeft THEN 1 ELSE -1

\* C16 (as claimed): when the LineFollower samples LEFT then RIGHT (or RIGHT
\* then LEFT) the second turn command uses half of TurningSpeed; on LEFT
\* then LEFT both use the full TurningSpeed.
C16_FlipHalvesTurningSpeed ==
    \A c \in CtlIds :
        C16_Case(c) =>
            loop[c].cmd =
                Drive(IF hist[c].prev.position # loop[c].position
                      THEN TurningSpeed \div 2 ELSE TurningSpeed,
                      TurnRadius(loop[c].position))

\* C16: every LEFT or RIGHT tick of the LineFollower turns at the full
\* TurningSpeed, whatever the tick before it sampled.
C16_AlwaysFullTurningSpeed ==
    \A c \in CtlIds :
        C16_Case(c) =>
            /\ loop[c].cmd = Drive(TurningSpeed, TurnRadius(loop[c].position))
            /\ hist[c].prev.cmd = Drive(TurningSpeed, TurnRadius(hist[c].prev.position))
            /\ last[c] = [src |-> "tick", bytes |-> loop[c].cmd, ok |-> ~loop[c].err]

C16_Witness ==
    \E c \in CtlIds :
        /\ C16_Case(c)
        /\ hist[c].prev.position = LineLeft
        /\ loop[c].position = LineRight
        /\ last[c].bytes = Drive(TurningSpeed, -1)

\* a ColorTracker has completed a NOT_FOUND tick right after the NOT_FOUND
\* tick that stopped it, with no Stop() called
C17_Case(c) ==
    /\ obj[c].variant = "tracker"
    /\ TickDone(c)
    /\ NotStopped(c)
    /\ hist[c].nticks >= 2
    /\ hist[c].prev.position = LineNotFound
    /\ hist[c].prev.cmd = RoombaStop
    /\ loop[c].position = LineNotFound

\* C17: after the Drive(0,0) of the stop delay the tracker
\* writes no motion command while NOT_FOUND keeps being sampled.
C17_StaysStopped ==
    \A c \in CtlIds :
        C17_Case(c) => loop[c].cmd \in {NoCmd, RoombaStop}

\* C18: every GetPosition() returns NOT_FOUND when no detection cycle has
\* published yet, and otherwise the position the latest cycle published.
C18_LatestPublished ==
    \A t \in Requests :
        (th[t].cmd = "cd.GetPosition" /\ th[t].got # <<>>) =>
            th[t].got[1].value = th[t].got[1].want

C18_Witness ==
    \E t \in Requests :
        /\ th[t].cmd = "cd.GetPosition"
        /\ th[t].got # <<>>
        /\ th[t].got[1].value = LineRight
        /\ obj[1].cd.npub = 2
        /\ obj[1].cd.position = LineNotFound

\* the threads inside the Stop() of the detector
InStop == {t \in Requests : th[t].pc \in {"cd.Stop", "cd.Stop.close"}}

\* C19: when the Stop() calls are made after the Start() calls have
\* returned, the Start() calls launch one detection loop and the Stop()
\* calls close the stop channel once, however the calls of each kind
\* overlap: one loop is running when every Start() has returned, one
\* close has been made when every Stop() has returned.
C19_OneLoopOneClose ==
    LET d == obj[1].cd
    IN ~d.mixed =>
          /\ d.launched <= 1
          /\ d.closes <= 1
          /\ (d.starts > 0 /\ InStart = {}) => d.launched = 1
          /\ (d.starts > 0 /\ d.stopCalled /\ InStop = {}) => d.closes = 1

C19_Witness ==
    LET d == obj[1].cd
    IN /\ ~d.mixed
       /\ d.starts = 2
       /\ d.calls = 4
       /\ ~d.closeCalled
       /\ \A t \in Requests : th[t].pc = "idle" /\ th[t].cmd = "cd.Stop"
       /\ d.launched = 1
       /\ d.closes = 1

\* C20: when Close() is called on a detector whose Start() calls have
\* returned, then once Close() has returned no detection loop reads the
\* camera or writes the frame buffers.
C20_NoUseAfterClose == ~obj[1].cd.mixed => ~obj[1].cd.lateUse

\* the detector whose cycles are examined, once a cycle has published
Cycled == obj[1].cd.npub > 0

\* the areas of the contours of a frame
Areas(frame) == {frame.contours[i].area : i \in DOMAIN frame.contours}

\* C21: the position a cycle publishes is NOT_FOUND exactly when its frame
\* has no contour or no contour with an area above MinContourArea; a
\* largest area of exactly MinContourArea gives NOT_FOUND.
C21_NotFoundExactly ==
    Cycled =>
        (obj[1].cd.lastPub = LineNotFound
            <=> \A a \in Areas(obj[1].cd.lastImg) : a <= MinContourArea)

C21_Witness ==
    /\ Cycled
    /\ MinContourArea \in Areas(obj[1].cd.lastImg)
    /\ \A a \in Areas(obj[1].cd.lastImg) : a <= MinContourArea
    /\ obj[1].cd.lastPub = LineNotFound

\* the largest contour of a frame: the first of those with the largest area
Largest(frame) ==
    LET top == {i \in DOMAIN frame.contours :
                   \A j \in DOMAIN frame.contours :
                       frame.contours[j].area <= frame.contours[i].area}
    IN frame.contours[CHOOSE i \in top : \A j \in top : i <= j]

\* the horizontal centre of a bounding box
CentreX(rect) == rect.minX + ((rect.maxX - rect.minX) \div 2)

\* the frame the centre zone of the detector was computed from: the frame
\* of the cycle in progress, else the frame of the latest publication
InCycle == obj[1].cd.loops[1].pc \in {"lower", "upper", "process"}
ZoneFrame == IF InCycle THEN obj[1].cd.loops[1].img ELSE obj[1].cd.lastImg
Zoned == Cycled \/ InCycle

\* C22: when the largest contour is larger than MinContourArea the
\* published position is CENTERED if its bounding box overlaps the centre
\* zone, else LEFT if the centre of the box is left of the zone's left
\* edge, else RIGHT; smaller contours do not matter.
C22_LargestDecides ==
    LET d == obj[1].cd
    IN (Cycled /\ ~InCycle /\ \E a \in Areas(d.lastImg) : a > MinContourArea) =>
          d.lastPub =
              IF Overlaps(Largest(d.lastImg), d.centerRect) THEN LineCentered
              ELSE IF CentreX(Largest(d.lastImg)) < d.centerRect.minX THEN LineLeft
              ELSE LineRight

C22_Witness ==
    LET d == obj[1].cd
    IN /\ Cycled
       /\ ~InCycle
       /\ Len(d.lastImg.contours) = 3
       /\ Largest(d.lastImg).area > MinContourArea
       /\ Overlaps(Largest(d.lastImg), d.centerRect)
       /\ \E i \in DOMAIN d.lastImg.contours :
             ~Overlaps(d.lastImg.contours[i], d.centerRect)
       /\ d.lastPub = LineCentered

\* C23: the centre zone of a cycle reaches as far left as right of
\* frame_width / 2 and lies within the frame, for every CenterWidth of
\* Divisors and every frame size.
C23_ZoneSymmetricInside ==
    LET d == obj[1].cd
        r == d.centerRect
        mid == ZoneFrame.width \div 2
    IN Zoned =>
          /\ mid - r.minX = r.maxX - mid
          /\ 0 <= r.minX /\ r.minX <= r.maxX /\ r.maxX <= ZoneFrame.width
          /\ 0 <= r.minY /\ r.minY <= r.maxY /\ r.maxY <= ZoneFrame.height

C23_Witness ==
    /\ Cycled
    /\ ~InCycle
    /\ obj[1].cd.centerWidth = 1
    /\ obj[1].cd.lastImg.width = 121
    /\ obj[1].cd.centerRect.maxX = 120

\* the latest tick of c has decided on its Roomba call
TickDecided(c) == loop[c].pc \in {"decided", "written"} \/ TickDone(c)

\* C24: a tick of a ColorSeeker that gave up at the loss timeout (state
\* STOPPED, Stop() not called) writes nothing to the Roomba, whatever
\* position it samples.
C24_StoppedWritesNothing ==
    \A c \in SeekerIds :
        (TickDecided(c) /\ NotStopped(c) /\ loop[c].currentState = Stopped)
            => loop[c].cmd = NoCmd

\* a NOT_FOUND tick of seeker c in CENTERING or FOLLOWING, not later than
\* LostColorTimeout after the colour was last seen, is complete, and Stop()
\* was not called
C25_Case(c) ==
    /\ TickDone(c)
    /\ NotStopped(c)
    /\ loop[c].position = LineNotFound
    /\ loop[c].currentState \in {Centering, Following}
    /\ ~loop[c].expired

\* C25: a NOT_FOUND tick of a ColorSeeker in CENTERING or FOLLOWING within
\* LostColorTimeout leaves the state and lastColorSeen as they were, and
\* lastColorSeen changes only in a tick that sampled a position other than
\* NOT_FOUND.
C25_GraceWindowHolds ==
    /\ [](\A c \in SeekerIds :
            C25_Case(c) => /\ obj[c].state = loop[c].currentState
                           /\ obj[c].lastColorSeen < now)
    /\ [][\A c \in SeekerIds :
            obj'[c].lastColorSeen # obj[c].lastColorSeen =>
                /\ loop[c].pc = "sampled"
                /\ loop[c].position # LineNotFound
                /\ obj'[c].lastColorSeen = now]_vars

C25_Witness ==
    \E c \in SeekerIds :
        /\ C25_Case(c)
        /\ loop[c].currentState = Centering
        /\ obj[c].state = Centering
        /\ hist[c].prev.position = LineNotFound
        /\ obj[c].lastColorSeen = now - 2 * UpdateInterval

\* C26: a NOT_FOUND tick of a ColorSeeker in SPINNING writes
\* Drive(SpinSpeed, -1) and leaves the state SPINNING, however long the
\* colour has not been seen and however many such ticks came before.
C26_SpinningNeverTimesOut ==
    \A c \in SeekerIds :
        (/\ TickDecided(c)
         /\ loop[c].position = LineNotFound
         /\ loop[c].currentState = Spinning)
        => /\ loop[c].cmd = Drive(SpinSpeed, -1)
           /\ loop[c].newState = Spinning
           /\ (TickDone(c) /\ NotStopped(c)) => obj[c].state = Spinning

\* every tick of the run sampled NOT_FOUND and the last one was made long
\* after LostColorTimeout
C26_Witness ==
    \E c \in SeekerIds :
        /\ TickDone(c)
        /\ NotStopped(c)
        /\ hist[c].nticks = MaxTicks
        /\ obj[c].lastColorSeen = ZeroTime
        /\ now > LostColorTimeout
        /\ loop[c].expired
        /\ loop[c].position = LineNotFound
        /\ hist[c].prev.position = LineNotFound
        /\ last[c] = [src |-> "tick", bytes |-> Drive(SpinSpeed, -1), ok |-> TRUE]
        /\ obj[c].state = Spinning

\* C27: a tick of a ColorSeeker in SPINNING or CENTERING that samples LEFT
\* writes Drive(AdjustmentSpeed, +1), one that samples RIGHT writes
\* Drive(AdjustmentSpeed, -1), and both leave the state CENTERING.
C27_SideTurnsTowardsColour ==
    \A c \in SeekerIds :
        (/\ TickDecided(c)
         /\ loop[c].position \in {LineLeft, LineRight}
         /\ loop[c].currentState \in {Spinning, Centering})
        => /\ loop[c].cmd = Drive(AdjustmentSpeed,
                                  IF loop[c].position = LineLeft THEN 1 ELSE -1)
           /\ loop[c].newState = Centering
           /\ (TickDone(c) /\ NotStopped(c)) => obj[c].state = Centering

C27_Witness ==
    \E c \in SeekerIds :
        /\ TickDone(c)
        /\ NotStopped(c)
        /\ loop[c].currentState = Centering
        /\ hist[c].prev.position = LineLeft
        /\ loop[c].position = LineRight
        /\ last[c] = [src |-> "tick", bytes |-> <<137, 0, 80, 255, 255>>, ok |-> TRUE]
        /\ obj[c].state = Centering

\* C28: a tick whose Roomba write failed leaves the controller as it was
\* before the tick: a seeker's state is the state the tick found,
\* lastColorSeen was not set by the tick, and a tracker's lastPosition is
\* the one of the constructor (first tick) or of the previous tick that saw
\* the colour.
C28_FailedTickIsNoOp ==
    \A c \in CtlIds :
        (TickDone(c) /\ NotStopped(c) /\ loop[c].err) =>
            /\ obj[c].variant # "follower" => obj[c].lastColorSeen # now
            /\ obj[c].variant \in Seekers => obj[c].state = loop[c].currentState
            /\ (obj[c].variant = "tracker" /\ hist[c].nticks = 1)
                   => obj[c].lastPosition = LineNotFound
            /\ (obj[c].variant = "tracker" /\ hist[c].nticks > 1
                    /\ hist[c].prev.position # LineNotFound /\ ~hist[c].prev.err)
                   => obj[c].lastPosition = hist[c].prev.position

\* the trackers
TrackerIds == {c \in CtlIds : obj[c].variant = "tracker"}

\* a tick of tracker c that sampled `side` has decided on its Roomba call
\* and has not yet stored the position
TurnDecided(c, side) ==
    /\ loop[c].pc \in {"decided", "written"}
    /\ loop[c].position = side

\* the side opposite to a side
Opposite(side) == IF side = LineLeft THEN LineRight ELSE LineLeft

\* C29: a ColorTracker tick that samples LEFT or RIGHT turns towards that
\* side at MinRotationSpeed / 2 when the previous tracked position is the
\* opposite side, and at MinRotationSpeed when it is the same side,
\* CENTERED, or none yet; the previous tracked position is the position of
\* the previous tick when that tick saw the colour.
C29_FlipHalvesRotation ==
    \A c \in TrackerIds : \A side \in {LineLeft, LineRight} :
        TurnDecided(c, side) =>
            /\ loop[c].cmd =
                  Drive(IF obj[c].lastPosition = Opposite(side)
                        THEN MinRotationSpeed \div 2 ELSE MinRotationSpeed,
                        IF side = LineLeft THEN 1 ELSE -1)
            /\ hist[c].nticks = 1 => obj[c].lastPosition = LineNotFound
            /\ (hist[c].nticks > 1 /\ hist[c].prev.position # LineNotFound)
                  => obj[c].lastPosition = hist[c].prev.position

C29_Witness ==
    \E c \in TrackerIds :
        /\ TickDone(c)
        /\ hist[c].prev.position = LineLeft
        /\ loop[c].position = LineRight
        /\ last[c] = [src |-> "tick", bytes |-> <<137, 0, 17, 255, 255>>, ok |-> TRUE]
        /\ obj[c].lastPosition = LineRight

\* C30: a ColorTracker tick writes a turn at MinRotationSpeed / 2 only if
\* the tick immediately before it sampled the opposite side.
C30_HalfSpeedOnlyAfterOppositeTick ==
    \A c \in TrackerIds : \A side \in {LineLeft, LineRight} :
        (/\ TickDecided(c)
         /\ loop[c].position = side
         /\ loop[c].cmd = Drive(MinRotationSpeed \div 2, IF side = LineLeft THEN 1 ELSE -1))
        => /\ hist[c].nticks > 1
           /\ hist[c].prev.position = Opposite(side)

\* the followers
FollowerIds == {c \in CtlIds : obj[c].variant = "follower"}

\* C31: every LineFollower tick writes one command and sets the direction
\* by the sampled position alone: CENTERED gives Drive(ForwardSpeed,
\* STRAIGHT) and FORWARD, LEFT gives Drive(TurningSpeed, +1) and LEFT, RIGHT
\* gives Drive(TurningSpeed, -1) and RIGHT, NOT_FOUND gives Drive(0,0) and
\* STOP on that same tick.
C31_FollowerByPositionAlone ==
    \A c \in FollowerIds :
        TickDecided(c) =>
            /\ loop[c].cmd =
                  CASE loop[c].position = LineCentered ->
                          Drive(FollowerForwardSpeed, StraightRadius)
                    [] loop[c].position = LineLeft -> Drive(TurningSpeed, 1)
                    [] loop[c].position = LineRight -> Drive(TurningSpeed, -1)
                    [] loop[c].position = LineNotFound -> Drive(0, 0)
            /\ TickDone(c) =>
                  obj[c].direction =
                      CASE loop[c].position = LineCentered -> Forward
                        [] loop[c].position = LineLeft -> Left
                        [] loop[c].position = LineRight -> Right
                        [] loop[c].position = LineNotFound -> Stop

C31_Witness ==
    \E c \in FollowerIds :
        /\ TickDone(c)
        /\ NotStopped(c)
        /\ hist[c].prev.position = LineCentered
        /\ loop[c].position = LineNotFound
        /\ now = 2 * UpdateInterval
        /\ last[c] = [src |-> "tick", bytes |-> <<137, 0, 0, 0, 0>>, ok |-> TRUE]
        /\ obj[c].direction = Stop

\* C32 (as claimed): the centre zone of a cycle is exactly
\* frame_width / CenterWidth wide and as high as the frame.
C32_ZoneWidthExact ==
    LET d == obj[1].cd
    IN Zoned =>
          /\ d.centerRect.maxX - d.centerRect.minX = ZoneFrame.width \div d.centerWidth
          /\ d.centerRect.minY = 0
          /\ d.centerRect.maxY = ZoneFrame.height

\* C32 (amended): the centre zone of a cycle is twice the half of
\* frame_width / CenterWidth wide, one less than frame_width / CenterWidth
\* when that is odd, and as high as the frame.
C32_ZoneWidthTwiceHalf ==
    LET d == obj[1].cd
        centerWidth == ZoneFrame.width \div d.centerWidth
    IN Zoned =>
          /\ d.centerRect.maxX - d.centerRect.minX = 2 * (centerWidth \div 2)
          /\ d.centerRect.maxX - d.centerRect.minX =
                IF centerWidth % 2 = 0 THEN centerWidth ELSE centerWidth - 1
          /\ d.centerRect.minY = 0
          /\ d.centerRect.maxY = ZoneFrame.height

C32_Witness ==
    /\ Cycled
    /\ ~InCycle
    /\ obj[1].cd.centerWidth = 1
    /\ obj[1].cd.lastImg.width = 25
    /\ obj[1].cd.lastImg.height = 90
    /\ obj[1].cd.centerRect = [minX |-> 0, minY |-> 0, maxX |-> 24, maxY |-> 90]

\* C33: every drive frame written to the serial port, by a tick, by Start()
\* or Stop() of a controller or by a manual command, carries a velocity
\* between -500 and 500.
C33_VelocityInRange ==
    (Len(wire.bytes) = 5 /\ wire.bytes[1] = CmdDrive) =>
        /\ Int16Of(wire.bytes[2], wire.bytes[3]) >= -500
        /\ Int16Of(wire.bytes[2], wire.bytes[3]) <= 500

\* C34: a read that fails or gives an empty frame sends the detection loop
\* back to its select and leaves the published position and the stored
\* frames as they were, so that the position of the detector stays the one
\* of the latest publication while reads fail.
C34_FailedReadRetries ==
    /\ [][\A i \in 1..MaxStarts :
            (/\ obj[1].cd.loops[i].pc = "read"
             /\ obj'[1].cd.loops[i].pc \notin {"read", "lower"}
             /\ ~obj'[1].cd.crashed)
            => /\ obj'[1].cd.loops[i].pc = "select"
               /\ obj'[1].cd.position = obj[1].cd.position
               /\ obj'[1].cd.frames = obj[1].cd.frames
               /\ obj'[1].cd.npub = obj[1].cd.npub]_vars
    /\ [](~obj[1].cd.crashed =>
            GetPosition(obj[1].cd) =
                IF obj[1].cd.npub = 0 THEN LineNotFound ELSE obj[1].cd.lastPub)

\* the read after the cycle that published LEFT failed
C34_Witness ==
    LET d == obj[1].cd
    IN /\ d.retries = 1
       /\ d.launched = 1
       /\ d.npub = 1
       /\ d.lastPub = LineLeft
       /\ d.position = LineLeft
       /\ d.frames = "held"
       /\ d.loops[1].pc = "select"
       /\ ~d.crashed

\* C35: a detector that was started and stopped can be started again:
\* while it is running and no call is under way one of its loops is alive,
\* and no Stop() closes a stop channel that is already closed (Close() not
\* being called).
C35_RestartWorks ==
    LET d == obj[1].cd
    IN ~d.closeCalled =>
          /\ ~d.crashed
          /\ (d.running /\ InStart = {} /\ InStop = {})
                => \E i \in 1..MaxStarts : d.loops[i].pc \notin {"none", "exited"}

\* ColorSeeker.GetCurrentState
GetCurrentState(c) == obj[c].state

\* C36: once Stop() has returned on a ColorSeeker, GetCurrentState()
\* returns STOPPED, also when a tick was in progress during Stop().
C36_StoppedAfterStop ==
    \A c \in SeekerIds : hist[c].returned => GetCurrentState(c) = Stopped

\* the controllers that are running or that a request is about to start
RunningOrStarting ==
    {c \in CtlIds :
        \/ obj[c].running
        \/ \E t \in Threads :
              /\ th[t].c = c
              /\ th[t].pc \in {"Start", "Start.set", "cd.Start", "cd.Start.go", "Start.state",
                            "Start.drive", "Start.go"}}

\* C37: every controller that is running or about to be started is the
\* one the global active-controller pointer refers to.
C37_RunningIsActive == \A c \in RunningOrStarting : active = c

\* the controllers whose detector holds an open camera
CameraHolders == {c \in CtlIds : obj[c].variant # "none" /\ obj[c].cd.webcam = "open"}

\* C38: at most one detector holds an open camera at any time: the camera
\* of a replaced controller is released before the next one is opened.
C38_OneCameraHolder == Cardinality(CameraHolders) <= 1

\* LineFollower.GetCurrentDirection
GetCurrentDirection(c) == obj[c].direction

\* C39: GetCurrentDirection() of a LineFollower returns STOP before its
\* first tick and once Stop() has returned.
C39_StopWhenNotRunning ==
    \A c \in FollowerIds :
        (hist[c].nticks = 0 \/ hist[c].returned) => GetCurrentDirection(c) = Stop

\* C40: the lower and the upper colour bound a detection cycle classifies
\* with belong to the same configuration, also while SetColorRange runs.
C40_BoundsFromOneConfig ==
    \A c \in CtlIds : obj[c].cd.used # <<>> => obj[c].cd.used[1] = obj[c].cd.used[2]

====
